---- MODULE Spec2Model ----
(***************************************************************************)
(* Verification model of the circuit-construction-kit-common solver core:  *)
(*   - TimestepSubdivisions (adaptive step-halving integrator),            *)
(*   - ModifiedNodalAnalysisCircuit (static MNA solver),                   *)
(*   - ModifiedNodalAnalysisAdapter (circuit -> solver -> circuit).        *)
(* Each part has its own specification over the shared variable list; the  *)
(* variables of the other parts stay at their idle values.                 *)
(***************************************************************************)
EXTENDS Integers, Sequences, FiniteSets, TLC

(***************************************************************************)
(* Time is counted in ticks of MIN_DT/64, so that the halvings the         *)
(* integrator performs on the totalTime values below stay exact (binary    *)
(* floating point halves exactly as well).                                 *)
(***************************************************************************)
MIN_DT == 64

\* distances are counted in units of 1e-6, so 1e-5 is 10
ERROR_THRESHOLD == 10

\* largest totalTime of an outer step, in halves of MIN_DT
MaxTotalHalves == 14

\* search is first called with halfStepState = null; an optional state is a
\* sequence holding no state or one state
Null == << >>

Some(s) == <<s>>

VARIABLES
  pc,             \* position of the running call
  totalTime,      \* stepInTimeWithHistory: argument
  state,          \* stepInTimeWithHistory: let state (also search's state argument)
  elapsedTime,    \* stepInTimeWithHistory: let elapsedTime
  states,         \* stepInTimeWithHistory: const states (the Result Set)
  attemptedDT,    \* stepInTimeWithHistory: let attemptedDT
  dt,             \* search: argument dt of the running invocation
  halfStepState,  \* search: argument halfStepState of the running invocation
  a,              \* search: const a
  b1,             \* search: const b1
  b2,             \* search: const b2
  distance,       \* search: const distance
  batteries,      \* ModifiedNodalAnalysisCircuit: this.batteries
  resistors,      \* ModifiedNodalAnalysisCircuit: this.resistors
  currentSources, \* ModifiedNodalAnalysisCircuit: this.currentSources
  equations,      \* solve: const equations, of the last call
  unknowns,       \* solve: const unknowns, of the last call
  columns,        \* solve: the number of columns of const A, of the last call
  earlier,        \* the circuit constructed before this one and its Solution, if any
  solutions,      \* the Solutions that the calls of solve returned, in order
  caught,         \* solve: the catch block ran in the last call
  thrown,         \* an exception left solve
  circuitElements,           \* Circuit: circuit.circuitElements
  vertexVoltage,             \* Circuit: voltageProperty of each vertex of circuit.vertexGroup
  participants,              \* solveModifiedNodalAnalysis: const participants
  nonParticipants,           \* solveModifiedNodalAnalysis: const nonParticipants
  resistiveBatteryAdapters,  \* solveModifiedNodalAnalysis: const resistiveBatteryAdapters
  resistorAdapters,          \* solveModifiedNodalAnalysis: const resistorAdapters
  capacitorAdapters,         \* solveModifiedNodalAnalysis: const capacitorAdapters
  inductorAdapters,          \* solveModifiedNodalAnalysis: const inductorAdapters
  results,                   \* what the calls of solveWithSubdivisions returned; circuitResult is the last
  needsHelp,                 \* solveModifiedNodalAnalysis: let needsHelp
  visitedVertices,           \* solveModifiedNodalAnalysis: const visitedVertices
  seedIndex,                 \* position of the last forEach over circuit.circuitElements
  resultSet,      \* LTAStateSet: this.resultSet
  queried,        \* LTAStateSet: the element or core model the last call was about
  number,         \* LTAStateSet: what the last call returned
  vertices,             \* Circuit: this.vertices
  circuitElementArray,  \* Circuit: this.circuitElements, as its getter circuitElementArray gives it
  blackBoxInterface,    \* the vertices whose blackBoxInterfaceProperty is true
  phetBlackBoxStudy,    \* window.phetBlackBoxStudy
  isDragged,            \* the vertices of the circuit whose field isDragged is true
  dragging,             \* the vertices a pointer is dragging: setVerticesDragging has run, endDrag has not
  marked,               \* the pairs <<v, x>> such that setVerticesDragging(v) of a running drag marked x
  zoomAnimation,            \* CircuitConstructionKitModel: this.zoomAnimation, the time it has run
  isPlaying,                \* CircuitConstructionKitModel: this.isPlayingProperty
  isValueDepictionEnabled,  \* CircuitConstructionKitModel: this.isValueDepictionEnabledProperty
  dirty,                    \* Circuit: this.dirty
  circuitSteps,             \* the time deltas that circuit.step was called with
  stopwatchTime,            \* Stopwatch: the time the stopwatch has been stepped by
  emitted,                  \* the time deltas that stepEmitter emitted
  stepDt,                   \* the dt of the last call of step( dt )
  charted                   \* the time deltas that the chart nodes were stepped with

tsVars == <<totalTime, state, elapsedTime, states, attemptedDT, dt,
            halfStepState, a, b1, b2, distance>>

mnaVars == <<batteries, resistors, currentSources, equations, unknowns, columns,
             earlier, solutions, caught, thrown>>

adapterVars == <<circuitElements, vertexVoltage, participants, nonParticipants,
                 resistiveBatteryAdapters, resistorAdapters, capacitorAdapters,
                 inductorAdapters, results, needsHelp, visitedVertices, seedIndex>>

ltaVars == <<resultSet, queried, number>>

circuitVars == <<vertices, circuitElementArray, blackBoxInterface, phetBlackBoxStudy,
                 isDragged, dragging, marked>>

modelVars == <<zoomAnimation, isPlaying, isValueDepictionEnabled, dirty,
               circuitSteps, stopwatchTime, emitted, stepDt, charted>>

vars == <<pc, tsVars, mnaVars, adapterVars, ltaVars, circuitVars, modelVars>>

\* what the integrator leaves alone
notTS == <<mnaVars, adapterVars, ltaVars, circuitVars, modelVars>>

\* what the static solver leaves alone
notMNA == <<tsVars, adapterVars, ltaVars, circuitVars, modelVars>>

\* no outer step is running
IdleTS ==
  /\ totalTime = 0
  /\ state = << >>
  /\ elapsedTime = 0
  /\ states = << >>
  /\ attemptedDT = 0
  /\ dt = 0
  /\ halfStepState = << >>
  /\ a = << >>
  /\ b1 = << >>
  /\ b2 = << >>
  /\ distance = 0

\* no solver circuit has been constructed
IdleMNA ==
  /\ batteries = << >>
  /\ resistors = << >>
  /\ currentSources = << >>
  /\ equations = << >>
  /\ unknowns = << >>
  /\ columns = 0
  /\ earlier = << >>
  /\ solutions = << >>
  /\ caught = FALSE
  /\ thrown = FALSE

\* what the adapter leaves alone
notAdapter == <<tsVars, mnaVars, ltaVars, circuitVars, modelVars>>

\* solveModifiedNodalAnalysis has not been called
IdleAdapter ==
  /\ circuitElements = << >>
  /\ vertexVoltage = << >>
  /\ participants = << >>
  /\ nonParticipants = << >>
  /\ resistiveBatteryAdapters = << >>
  /\ resistorAdapters = << >>
  /\ capacitorAdapters = << >>
  /\ inductorAdapters = << >>
  /\ results = << >>
  /\ needsHelp = FALSE
  /\ visitedVertices = << >>
  /\ seedIndex = 0

\* what the result aggregator leaves alone
notLTA == <<tsVars, mnaVars, adapterVars, circuitVars, modelVars>>

\* no LTAStateSet has been constructed
IdleLTA ==
  /\ resultSet = << >>
  /\ queried = << >>
  /\ number = << >>

\* what the operations on the circuit graph leave alone
notCircuit == <<tsVars, mnaVars, adapterVars, ltaVars, modelVars>>

\* no Circuit has been constructed
IdleCircuit ==
  /\ vertices = {}
  /\ circuitElementArray = << >>
  /\ blackBoxInterface = {}
  /\ phetBlackBoxStudy = FALSE
  /\ isDragged = {}
  /\ dragging = {}
  /\ marked = {}

\* what the step of the model leaves alone
notModel == <<tsVars, mnaVars, adapterVars, ltaVars, circuitVars>>

\* no CircuitConstructionKitModel has been constructed
IdleModel ==
  /\ zoomAnimation = << >>
  /\ isPlaying = FALSE
  /\ isValueDepictionEnabled = FALSE
  /\ dirty = FALSE
  /\ circuitSteps = << >>
  /\ stopwatchTime = 0
  /\ emitted = << >>
  /\ stepDt = 0
  /\ charted = << >>

(***************************************************************************)
(* TimestepSubdivisions                                                    *)
(***************************************************************************)

\* The totalTime values an outer step is called with (0 included).
TotalTimes == { k * (MIN_DT \div 2) : k \in 0..MaxTotalHalves }

\* The values steppable.distance may report: below, just below, equal to and
\* above the threshold.
Distances == { 0, ERROR_THRESHOLD - 1, ERROR_THRESHOLD, ERROR_THRESHOLD + 1 }

\* steppable.update is a callback: it is modelled freely, a state being the
\* sequence of the step durations applied to the original state, so that two
\* states are equal only if they were produced by the same updates.
update(s, d) == Append(s, d)

HalveNoOp(x) == x

\* dt / 2
Halve(x) == x \div 2

ErrorAcceptableInclusive(d) == d <= ERROR_THRESHOLD

\* const errorAcceptable = distance < ERROR_THRESHOLD
ErrorAcceptable(d) == d < ERROR_THRESHOLD

FloorResultAttempted(s, d) == [dt |-> d, state |-> update(s, d)]

\* return { dt: MIN_DT, state: steppable.update( state, MIN_DT ) }
FloorResult(s, d) == [dt |-> MIN_DT, state |-> update(s, MIN_DT)]

LoopTailNoClamp(result) ==
  /\ state' = result.state
  /\ states' = Append(states, result)
  /\ elapsedTime' = elapsedTime + result.dt
  /\ attemptedDT' = result.dt * 2
  /\ pc' = "loop"

\* The tail of the loop body of stepInTimeWithHistory, run with the result
\* that search returned.
LoopTail(result) ==
  /\ state' = result.state
  /\ states' = Append(states, result)
  /\ elapsedTime' = elapsedTime + result.dt
  /\ attemptedDT' = IF result.dt * 2 > totalTime - (elapsedTime + result.dt)
                      THEN totalTime - (elapsedTime + result.dt)
                      ELSE result.dt * 2
  /\ pc' = "loop"

InitTS ==
  /\ pc = "loop"
  /\ totalTime \in TotalTimes
  /\ state = << >>
  /\ elapsedTime = 0
  /\ states = << >>
  /\ attemptedDT = totalTime
  /\ dt = 0
  /\ halfStepState = Null
  /\ a = << >>
  /\ b1 = << >>
  /\ b2 = << >>
  /\ distance = 0
  /\ IdleMNA
  /\ IdleAdapter
  /\ IdleLTA
  /\ IdleCircuit
  /\ IdleModel

\* while ( elapsedTime < totalTime ) { const result = this.search( state, steppable, attemptedDT, null )
CallSearch ==
  /\ pc = "loop"
  /\ elapsedTime < totalTime
  /\ dt' = attemptedDT
  /\ halfStepState' = Null
  /\ pc' = "search"
  /\ UNCHANGED <<totalTime, state, elapsedTime, states, attemptedDT, a, b1, b2, distance>>
  /\ UNCHANGED notTS

\* the loop condition fails: return new ResultSet( states )
ReturnResultSet ==
  /\ pc = "loop"
  /\ ~(elapsedTime < totalTime)
  /\ pc' = "done"
  /\ UNCHANGED tsVars
  /\ UNCHANGED notTS

\* if ( dt <= MIN_DT ) return { dt: MIN_DT, state: steppable.update( state, MIN_DT ) }
SearchFloor ==
  /\ pc = "search"
  /\ dt <= MIN_DT
  /\ LoopTail(FloorResult(state, dt))
  /\ UNCHANGED <<totalTime, dt, halfStepState, a, b1, b2, distance>>
  /\ UNCHANGED notTS

\* else: compute a, b1, b2 and the distance between a and b2
SearchEvaluate ==
  /\ pc = "search"
  /\ ~(dt <= MIN_DT)
  /\ a' = update(state, dt)
  /\ b1' = IF halfStepState # Null THEN halfStepState[1] ELSE update(state, Halve(dt))
  /\ b2' = update(b1', Halve(dt))
  /\ distance' \in Distances
  /\ pc' = "compare"
  /\ UNCHANGED <<totalTime, state, elapsedTime, states, attemptedDT, dt, halfStepState>>
  /\ UNCHANGED notTS

\* if ( errorAcceptable ) return { dt: dt, state: b2 }
SearchAccept ==
  /\ pc = "compare"
  /\ ErrorAcceptable(distance)
  /\ LoopTail([dt |-> dt, state |-> b2])
  /\ UNCHANGED <<totalTime, dt, halfStepState, a, b1, b2, distance>>
  /\ UNCHANGED notTS

\* else return this.search( state, steppable, dt / 2, b1 )
SearchRecurse ==
  /\ pc = "compare"
  /\ ~ErrorAcceptable(distance)
  /\ dt' = Halve(dt)
  /\ halfStepState' = Some(b1)
  /\ pc' = "search"
  /\ UNCHANGED <<totalTime, state, elapsedTime, states, attemptedDT, a, b1, b2, distance>>
  /\ UNCHANGED notTS

NextTS ==
  \/ CallSearch
  \/ ReturnResultSet
  \/ SearchFloor
  \/ SearchEvaluate
  \/ SearchAccept
  \/ SearchRecurse

SpecTS == InitTS /\ [][NextTS]_vars

\* The call runs to completion: no step of it is postponed forever.
FairSpecTS == InitTS /\ [][NextTS]_vars /\ WF_vars(NextTS)

(***************************************************************************)
(* Properties of TimestepSubdivisions                                      *)
(***************************************************************************)

RECURSIVE Pow2(_)
Pow2(n) == IF n = 0 THEN 1 ELSE 2 * Pow2(n - 1)

CeilDiv(x, y) == (x + y - 1) \div y

\* every halving the integrator performs is exact in ticks
HalvingExact == pc = "compare" => 2 * Halve(dt) = dt

\* C1: for every totalTime >= 0 and every behaviour of update/distance,
\* stepInTimeWithHistory returns: the halving of dt reaches dt <= MIN_DT, so
\* no search recurses forever, and every accepted sub-step advances
\* elapsedTime by at least MIN_DT, so the loop ends.
C1_StepInTimeReturns == <>(pc = "done")

\* the call has returned although distance never reported an acceptable
\* error: every sub-step was cut down to MIN_DT
C1_Witness ==
  /\ pc = "done"
  /\ Len(states) >= 3
  /\ \A i \in 1..Len(states) : states[i].dt = MIN_DT

\* C2: in every search invocation that gets past the MIN_DT floor, also a
\* recursive one that is handed its parent's half-step state, b2 is the
\* state reached from the invocation's start state by two updates of dt/2.
C2_FineEstimateIsTwoHalfSteps ==
  pc = "compare" => b2 = Append(Append(state, dt \div 2), dt \div 2)

\* C3 as stated: the number of accepted sub-steps is at most a constant
\* multiple of log2(totalTime/MIN_DT); with the constant 2, and for
\* totalTime >= 4 * MIN_DT, this reads 2^n <= (totalTime/MIN_DT)^2.
C3_SubstepsLogBounded ==
  (pc = "done" /\ totalTime >= 4 * MIN_DT)
    => Pow2(Len(states)) * MIN_DT * MIN_DT <= totalTime * totalTime

\* C3 as amended: the number of accepted sub-steps never exceeds
\* ceil(totalTime/MIN_DT).
C3_SubstepsBoundedByRatio ==
  totalTime > MIN_DT => Len(states) <= CeilDiv(totalTime, MIN_DT)

\* the linear bound is attained: five or more sub-steps, one per MIN_DT
C3_Witness ==
  /\ pc = "done"
  /\ totalTime > MIN_DT
  /\ Len(states) >= 5
  /\ Len(states) = CeilDiv(totalTime, MIN_DT)

\* C10: an attempted dt > MIN_DT is accepted exactly when distance(a, b2) is
\* strictly below ERROR_THRESHOLD; the accepted sub-step is recorded with the
\* attempted dt and the state b2, not a; otherwise nothing is recorded and
\* the search goes on with dt/2.
C10_AcceptIffBelowThreshold ==
  [][pc = "compare" =>
       IF distance < ERROR_THRESHOLD
         THEN /\ states' = Append(states, [dt |-> dt, state |-> b2])
              /\ state' = b2
              /\ b2 # a
         ELSE /\ states' = states
              /\ dt' = dt \div 2
              /\ pc' = "search"]_vars

\* a sub-step longer than MIN_DT has been accepted and recorded with b2
C10_Witness ==
  /\ pc = "loop"
  /\ Len(states) >= 1
  /\ states[Len(states)].dt > MIN_DT
  /\ states[Len(states)].state = b2
  /\ distance = ERROR_THRESHOLD - 1

\* the sum of the durations of the sub-steps recorded in a Result Set
RECURSIVE DurationSum(_)
DurationSum(seq) ==
  IF seq = << >> THEN 0 ELSE seq[1].dt + DurationSum(Tail(seq))

Min(x, y) == IF x < y THEN x ELSE y

\* the sum of a sequence of integers
RECURSIVE SeqSum(_)
SeqSum(seq) == IF seq = << >> THEN 0 ELSE seq[Len(seq)] + SeqSum(SubSeq(seq, 1, Len(seq) - 1))

\* distance reports an error below ERROR_THRESHOLD whenever it is called
DistanceAlwaysBelow == [](pc = "compare" => distance < ERROR_THRESHOLD)

\* distance reports an error of ERROR_THRESHOLD or more whenever it is called
DistanceNeverBelow == [](pc = "compare" => distance >= ERROR_THRESHOLD)

\* C11: the first dt attempted in an outer step is totalTime; once a
\* sub-step of duration d has been accepted, the dt attempted next is
\* min(2 * d, totalTime - elapsed), elapsed being the sum of the durations
\* accepted so far; a search started from the loop attempts exactly that dt.
C11_NextAttemptedDT ==
  /\ states = << >> => attemptedDT = totalTime
  /\ states # << >> =>
       attemptedDT = Min(2 * states[Len(states)].dt, totalTime - DurationSum(states))
  /\ (pc = "search" /\ halfStepState = Null) => dt = attemptedDT

\* after two accepted sub-steps the third search starts with twice the
\* duration of the second, which is less than the time that remains
C11_Witness ==
  /\ pc = "search"
  /\ halfStepState = Null
  /\ Len(states) = 2
  /\ dt = 2 * states[2].dt
  /\ dt < totalTime - DurationSum(states)

\* C12: if distance always reports an error below ERROR_THRESHOLD, then for
\* every totalTime > 0 the returned Result Set holds exactly one sub-step,
\* and its duration is totalTime.
C12_OneSubstepOfTotalTime ==
  DistanceAlwaysBelow =>
    []((pc = "done" /\ totalTime > 0) =>
         (Len(states) = 1 /\ states[1].dt = totalTime))

C22_DurationsSumToTotalTime ==
  totalTime > 0 =>
    /\ DurationSum(states) <= totalTime
    /\ pc = "done" => DurationSum(states) = totalTime

\* C23: for every totalTime >= 0, 0 included, the returned Result Set holds
\* at least one sub-step, and the total duration it covers is not 0.
C23_ResultSetNotEmpty ==
  pc = "done" => (Len(states) >= 1 /\ DurationSum(states) # 0)

(***************************************************************************)
(* ModifiedNodalAnalysisCircuit                                            *)
(***************************************************************************)

\* the largest number of elements of an enumerated circuit
MaxElements == 2

\* the node ids of the enumerated circuits
Nodes == 0..3

\* numbers are exact rationals <<numerator, denominator>>, denominator > 0,
\* in lowest terms
Abs(x) == IF x < 0 THEN -x ELSE x

RECURSIVE GCD(_, _)
GCD(x, y) == IF y = 0 THEN x ELSE GCD(y, x % y)

Rat(n, d) ==
  LET sgn == IF d < 0 THEN -1 ELSE 1
      g == GCD(Abs(n), Abs(d))
  IN  <<(sgn * n) \div g, (sgn * d) \div g>>

Zero == <<0, 1>>

One == <<1, 1>>

FromInt(i) == <<i, 1>>

RNeg(x) == <<-x[1], x[2]>>

RAdd(x, y) == Rat(x[1] * y[2] + y[1] * x[2], x[2] * y[2])

RSub(x, y) == Rat(x[1] * y[2] - y[1] * x[2], x[2] * y[2])

RMul(x, y) == Rat(x[1] * y[1], x[2] * y[2])

RDiv(x, y) == Rat(x[1] * y[2], x[2] * y[1])

\* a field that has never been assigned
Undefined == << >>

\* a descriptor handed to the constructor: nodeId0, nodeId1, value, and the
\* currentSolution field that solve assigns
Descriptor(n0, n1, v) ==
  [nodeId0 |-> n0, nodeId1 |-> n1, value |-> v, currentSolution |-> Undefined]

NodePairs == { p \in Nodes \X Nodes : p[1] # p[2] }

\* batteries in both directions; resistors and current sources from the lower
\* node to the higher one (the unit-test circuits have them the other way)
BatteryDescriptors == { Descriptor(p[1], p[2], 4) : p \in NodePairs }

ResistorDescriptors ==
  { Descriptor(p[1], p[2], v) : p \in { q \in NodePairs : q[1] < q[2] }, v \in {0, 4} }

CurrentSourceDescriptors ==
  { Descriptor(p[1], p[2], 2) : p \in { q \in NodePairs : q[1] < q[2] } }

Circuit(b, r, c) == [batteries |-> b, resistors |-> r, currentSources |-> c]

\* the circuits of the unit tests
TestCircuits ==
  { Circuit(<<Descriptor(0, 1, 4)>>, <<Descriptor(1, 0, 4)>>, << >>),
    Circuit(<<Descriptor(0, 1, 4)>>, <<Descriptor(1, 0, 2)>>, << >>),
    Circuit(<<Descriptor(0, 1, 4)>>, <<Descriptor(1, 0, 4), Descriptor(2, 3, 100)>>, << >>),
    Circuit(<< >>, <<Descriptor(1, 0, 4)>>, <<Descriptor(0, 1, 10)>>),
    Circuit(<<Descriptor(0, 1, -4)>>, <<Descriptor(1, 0, 2)>>, << >>),
    Circuit(<<Descriptor(0, 1, -4), Descriptor(1, 2, -4)>>, <<Descriptor(2, 0, 2)>>, << >>),
    Circuit(<<Descriptor(0, 1, 5)>>, <<Descriptor(1, 2, 10), Descriptor(2, 0, 10)>>, << >>),
    Circuit(<<Descriptor(0, 1, 4)>>, <<Descriptor(1, 0, 4), Descriptor(0, 2, 100)>>, << >>),
    Circuit(<<Descriptor(0, 1, 5)>>, <<Descriptor(1, 2, 10), Descriptor(2, 0, 0)>>, << >>),
    Circuit(<<Descriptor(0, 1, 9)>>, <<Descriptor(1, 0, 5), Descriptor(1, 0, 5)>>, << >>) }

\* the circuits of at most MaxElements elements over Nodes
SmallCircuits ==
  UNION { { Circuit(b, r, c) : b \in [1..n[1] -> BatteryDescriptors],
                               r \in [1..n[2] -> ResistorDescriptors],
                               c \in [1..n[3] -> CurrentSourceDescriptors] } :
          n \in { m \in (0..MaxElements) \X (0..MaxElements) \X (0..MaxElements) :
                    m[1] + m[2] + m[3] <= MaxElements } }

\* a battery with its resistor, and apart from them two resistors without
\* resistance that close a loop of their own
IsolatedLoopCircuits ==
  { Circuit(<<Descriptor(0, 1, 4)>>,
            <<Descriptor(1, 0, 4), Descriptor(2, 3, 0), Descriptor(2, 3, 0)>>, << >>) }

Circuits == SmallCircuits \cup TestCircuits \cup IsolatedLoopCircuits

\* an element is named by the list it is in and its place in that list
ElementRef(list, i) == [list |-> list, index |-> i]

ElementAt(ref) ==
  IF ref.list = "batteries" THEN batteries[ref.index]
  ELSE IF ref.list = "resistors" THEN resistors[ref.index]
  ELSE currentSources[ref.index]

\* a sequence given as a function, as the tuple of its values
Tuple(f) == f \o << >>

RefsOf(list, n) == Tuple([i \in 1..n |-> ElementRef(list, i)])

\* this.elements = this.batteries.concat( this.resistors ).concat( this.currentSources )
elements ==
  RefsOf("batteries", Len(batteries)) \o RefsOf("resistors", Len(resistors))
    \o RefsOf("currentSources", Len(currentSources))

\* the keys of this.nodeSet
nodeSet ==
  { ElementAt(elements[k]).nodeId0 : k \in 1..Len(elements) }
    \cup { ElementAt(elements[k]).nodeId1 : k \in 1..Len(elements) }

RECURSIVE Ascending(_)
Ascending(S) ==
  IF S = {} THEN << >>
  ELSE LET m == CHOOSE x \in S : \A y \in S : x <= y
       IN  <<m>> \o Ascending(S \ {m})

\* this.nodes = _.values( this.nodeSet ): the keys are node indices, which an
\* object enumerates in ascending order
nodes == Ascending(nodeSet)

\* this.nodeCount
nodeCount == Cardinality(nodeSet)

\* ModifiedNodalAnalysisCircuitElement.containsNodeId
containsNodeId(e, n) == e.nodeId0 = n \/ e.nodeId1 = n

\* ModifiedNodalAnalysisCircuitElement.getOppositeNode
getOppositeNode(e, n) == IF e.nodeId0 = n THEN e.nodeId1 ELSE e.nodeId0

IndexOf(seq, x) ==
  IF \E i \in 1..Len(seq) : seq[i] = x
    THEN CHOOSE i \in 1..Len(seq) : seq[i] = x /\ \A j \in 1..(i - 1) : seq[j] # x
    ELSE 0

RemoveAt(seq, i) == SubSeq(seq, 1, i - 1) \o SubSeq(seq, i + 1, Len(seq))

\* arrayRemove( array, item ): array.splice( array.indexOf( item ), 1 ), which
\* takes the last entry away when the item is not in the array
arrayRemove(seq, x) ==
  IF seq = << >> THEN seq
  ELSE IF IndexOf(seq, x) = 0 THEN RemoveAt(seq, Len(seq))
  ELSE RemoveAt(seq, IndexOf(seq, x))

RECURSIVE Uniq(_)
Uniq(seq) ==
  IF seq = << >> THEN << >>
  ELSE LET init == Uniq(SubSeq(seq, 1, Len(seq) - 1))
           x == seq[Len(seq)]
       IN  IF IndexOf(init, x) = 0 THEN Append(init, x) ELSE init

\* the inner for loop of getConnectedNodeIds, from element k on
RECURSIVE OppositesToVisit(_, _, _)
OppositesToVisit(nodeToVisit, visited, k) ==
  IF k > Len(elements) THEN << >>
  ELSE LET e == ElementAt(elements[k])
           rest == OppositesToVisit(nodeToVisit, visited, k + 1)
       IN  IF containsNodeId(e, nodeToVisit)
              /\ IndexOf(visited, getOppositeNode(e, nodeToVisit)) = 0
             THEN <<getOppositeNode(e, nodeToVisit)>> \o rest
             ELSE rest

\* the while loop of getConnectedNodeIds
RECURSIVE ConnectedLoop(_, _)
ConnectedLoop(visited, toVisit) ==
  IF toVisit = << >> THEN Uniq(visited)
  ELSE LET nodeToVisit == Head(toVisit)
           visited2 == Append(visited, nodeToVisit)
       IN  ConnectedLoop(visited2,
                         Tail(toVisit) \o OppositesToVisit(nodeToVisit, visited2, 1))

getConnectedNodeIdsSelf(node) == <<node>>

getConnectedNodeIds(node) == ConnectedLoop(<< >>, <<node>>)

RECURSIVE RemoveAll(_, _)
RemoveAll(seq, items) ==
  IF items = << >> THEN seq
  ELSE RemoveAll(arrayRemove(seq, Head(items)), Tail(items))

\* the while loop of getReferenceNodeIds
RECURSIVE ReferenceLoop(_, _)
ReferenceLoop(toVisit, referenceNodeIds) ==
  IF toVisit = << >> THEN referenceNodeIds
  ELSE ReferenceLoop(RemoveAll(toVisit, getConnectedNodeIds(toVisit[1])),
                     Append(referenceNodeIds, toVisit[1]))

getReferenceNodeIds == ReferenceLoop(nodes, << >>)

\* new Term( coefficient, variable )
Term(coefficient, variable) == [coefficient |-> coefficient, variable |-> variable]

EquationOfMagnitude(value, terms) == [value |-> <<Abs(value[1]), value[2]>>, terms |-> terms]

\* new Equation( value, terms )
Equation(value, terms) == [value |-> value, terms |-> terms]

\* new UnknownCurrent( element ); equals compares the element
UnknownCurrent(ref) == [kind |-> "I", node |-> -1, element |-> ref]

\* new UnknownVoltage( node ); equals compares the node
UnknownVoltage(node) == [kind |-> "V", node |-> node, element |-> ElementRef("", 0)]

RECURSIVE Flatten(_)
Flatten(ss) == IF ss = << >> THEN << >> ELSE Head(ss) \o Flatten(Tail(ss))

getCurrentCountAllResistors == Len(batteries) + Len(resistors)

\* the batteries and the resistors whose value is 0
getCurrentCount ==
  Len(batteries) + Cardinality({ i \in 1..Len(resistors) : resistors[i].value = 0 })

getNumVars == nodeCount + getCurrentCount

\* the for loop of getCurrentSourceTotal, from current source i on
RECURSIVE SourceTotalLoop(_, _, _)
SourceTotalLoop(nodeIndex, i, currentSourceTotal) ==
  IF i > Len(currentSources) THEN currentSourceTotal
  ELSE LET currentSource == currentSources[i]
           t1 == IF currentSource.nodeId1 = nodeIndex
                   THEN currentSourceTotal - currentSource.value
                   ELSE currentSourceTotal
           t2 == IF currentSource.nodeId0 = nodeIndex
                   THEN t1 + currentSource.value
                   ELSE t1
       IN  SourceTotalLoop(nodeIndex, i + 1, t2)

getCurrentSourceTotalEntering(nodeIndex) == -SourceTotalLoop(nodeIndex, 1, 0)

getCurrentSourceTotal(nodeIndex) == SourceTotalLoop(nodeIndex, 1, 0)

\* the terms that getCurrentTerms pushes for one side of the elements
getCurrentTerms(node, side, sign) ==
  Flatten([i \in 1..Len(batteries) |->
             IF batteries[i][side] = node
               THEN <<Term(FromInt(sign), UnknownCurrent(ElementRef("batteries", i)))>>
               ELSE << >>])
  \o
  Flatten([i \in 1..Len(resistors) |->
             IF resistors[i][side] = node
               THEN IF resistors[i].value = 0
                      THEN <<Term(FromInt(sign), UnknownCurrent(ElementRef("resistors", i)))>>
                      ELSE <<Term(Rat(-sign, resistors[i].value), UnknownVoltage(resistors[i].nodeId1)),
                             Term(Rat(sign, resistors[i].value), UnknownVoltage(resistors[i].nodeId0))>>
               ELSE << >>])

getEquationsWithoutShorts ==
  LET referenceNodeIds == getReferenceNodeIds
  IN
  [i \in 1..Len(referenceNodeIds) |->
     Equation(Zero, <<Term(One, UnknownVoltage(referenceNodeIds[i]))>>)]
  \o
  [i \in 1..Len(nodes) |->
     Equation(FromInt(getCurrentSourceTotal(nodes[i])),
              getCurrentTerms(nodes[i], "nodeId1", -1) \o getCurrentTerms(nodes[i], "nodeId0", 1))]
  \o
  [i \in 1..Len(batteries) |->
     Equation(FromInt(batteries[i].value),
              <<Term(FromInt(-1), UnknownVoltage(batteries[i].nodeId0)),
                Term(One, UnknownVoltage(batteries[i].nodeId1))>>)]

getEquations ==
  LET referenceNodeIds == getReferenceNodeIds
  IN
  [i \in 1..Len(referenceNodeIds) |->
     Equation(Zero, <<Term(One, UnknownVoltage(referenceNodeIds[i]))>>)]
  \o
  [i \in 1..Len(nodes) |->
     Equation(FromInt(getCurrentSourceTotal(nodes[i])),
              getCurrentTerms(nodes[i], "nodeId1", -1) \o getCurrentTerms(nodes[i], "nodeId0", 1))]
  \o
  [i \in 1..Len(batteries) |->
     Equation(FromInt(batteries[i].value),
              <<Term(FromInt(-1), UnknownVoltage(batteries[i].nodeId0)),
                Term(One, UnknownVoltage(batteries[i].nodeId1))>>)]
  \o
  Flatten([i \in 1..Len(resistors) |->
             IF resistors[i].value = 0
               THEN <<Equation(Zero, <<Term(One, UnknownVoltage(resistors[i].nodeId0)),
                                       Term(FromInt(-1), UnknownVoltage(resistors[i].nodeId1))>>)>>
               ELSE << >>])

getUnknownCurrents ==
  [i \in 1..Len(batteries) |-> UnknownCurrent(ElementRef("batteries", i))]
  \o
  Flatten([i \in 1..Len(resistors) |->
             IF resistors[i].value = 0
               THEN <<UnknownCurrent(ElementRef("resistors", i))>>
               ELSE << >>])

\* getIndexByEquals, counted from 1; 0 when there is no such entry
getIndexByEquals(array, element) == IndexOf(array, element)

\* the sum of the coefficients that stamp adds into column col
RECURSIVE CoefficientSum(_, _, _)
CoefficientSum(terms, unks, col) ==
  IF terms = << >> THEN Zero
  ELSE LET rest == CoefficientSum(Tail(terms), unks, col)
       IN  IF getIndexByEquals(unks, Head(terms).variable) = col
             THEN RAdd(Head(terms).coefficient, rest)
             ELSE rest

\* Equation.stamp into a row of the n columns of A, followed by the entry of z
stamp(equation, unks, n) ==
  Tuple([col \in 1..(n + 1) |->
           IF col = n + 1 THEN equation.value
           ELSE CoefficientSum(equation.terms, unks, col)])

\* Gauss-Jordan elimination of the rows (A | z), column by column
RECURSIVE Reduce(_, _, _)
Reduce(M, col, n) ==
  IF col > n THEN [ok |-> TRUE, m |-> M]
  ELSE LET cand == { r \in col..Len(M) : M[r][col] # Zero }
       IN  IF cand = {} THEN [ok |-> FALSE, m |-> M]
           ELSE LET p == CHOOSE r \in cand : \A q \in cand : r <= q
                    S == [M EXCEPT ![col] = M[p], ![p] = M[col]]
                    prow == Tuple([j \in 1..(n + 1) |-> RDiv(S[col][j], S[col][col])])
                    E == Tuple([r \in 1..Len(M) |->
                                  IF r = col THEN prow
                                  ELSE Tuple([j \in 1..(n + 1) |->
                                                RSub(S[r][j], RMul(S[r][col], prow[j]))])])
                IN  Reduce(E, col + 1, n)

\* new QRDecomposition( A ).solve( z ): the least-squares solution of Ax = z,
\* which is the exact solution when A has full column rank and the system is
\* consistent (SolutionSatisfiesEquations below); it throws when A is rank
\* deficient
QRDecompositionSolve(Az, n) ==
  LET r == Reduce(Az, 1, n)
  IN  IF r.ok THEN [threw |-> FALSE, x |-> Tuple([j \in 1..n |-> r.m[j][n + 1]])]
      ELSE [threw |-> TRUE, x |-> << >>]

TrySolveNoCatch(Az, n) ==
  LET r == QRDecompositionSolve(Az, n)
  IN  [threw |-> r.threw, caught |-> FALSE, x |-> r.x]

\* try { ... x = new QRDecomposition( A ).solve( z ) } catch( e ) { x = new Matrix( A.n, 1 ) }
TrySolve(Az, n) ==
  LET r == QRDecompositionSolve(Az, n)
  IN  IF r.threw THEN [threw |-> FALSE, caught |-> TRUE, x |-> [j \in 1..n |-> Zero]]
      ELSE [threw |-> FALSE, caught |-> FALSE, x |-> r.x]

WriteCurrentSolutionAndReverse(element, v) ==
  [element EXCEPT !.currentSolution = v, !.nodeId0 = element.nodeId1,
                  !.nodeId1 = element.nodeId0]

\* unknownCurrent.element.currentSolution = x.get( ... )
WriteCurrentSolution(element, v) == [element EXCEPT !.currentSolution = v]

IsResistanceFree(r) == r.value = 0

InitMNA ==
  /\ pc = "mna"
  /\ \E c \in Circuits :
       /\ batteries = c.batteries
       /\ resistors = c.resistors
       /\ currentSources = c.currentSources
  /\ equations = << >>
  /\ unknowns = << >>
  /\ columns = 0
  /\ earlier = << >>
  /\ solutions = << >>
  /\ caught = FALSE
  /\ thrown = FALSE
  /\ IdleTS
  /\ IdleAdapter
  /\ IdleLTA
  /\ IdleCircuit
  /\ IdleModel

\* one call of solve() on the constructed circuit
Solve ==
  /\ pc = "mna"
  /\ ~thrown
  /\ Len(solutions) < 2
  /\ \E eqs \in {getEquations}, unknownCurrents \in {getUnknownCurrents},
        unknownVoltages \in {Tuple([i \in 1..Len(nodes) |-> UnknownVoltage(nodes[i])])} :
     \E unks \in {unknownCurrents \o unknownVoltages}, numVars \in {getNumVars} :
     \E A \in {Tuple([i \in 1..Len(eqs) |-> stamp(eqs[i], unks, numVars)])} :
     \E r \in {TrySolve(A, numVars)} :
       LET voltageMap == [n \in nodeSet |->
                            r.x[getIndexByEquals(unks, UnknownVoltage(n))]]
           current(ref) == r.x[getIndexByEquals(unks, UnknownCurrent(ref))]
           newBatteries == Tuple([i \in 1..Len(batteries) |->
                                    WriteCurrentSolution(batteries[i],
                                                         current(ElementRef("batteries", i)))])
           newResistors == Tuple([i \in 1..Len(resistors) |->
                                    IF IsResistanceFree(resistors[i])
                                      THEN WriteCurrentSolution(resistors[i],
                                                                current(ElementRef("resistors", i)))
                                      ELSE resistors[i]])
       IN  /\ equations' = eqs
           /\ unknowns' = unks
           /\ columns' = numVars
           /\ IF r.threw
                THEN /\ thrown' = TRUE
                     /\ UNCHANGED <<batteries, resistors, solutions, caught>>
                ELSE /\ thrown' = thrown
                     /\ caught' = r.caught
                     /\ batteries' = newBatteries
                     /\ resistors' = newResistors
                     /\ solutions' =
                          Append(solutions,
                                 [nodeVoltages |-> voltageMap,
                                  elements |-> newBatteries
                                                 \o SelectSeq(newResistors, IsResistanceFree)])
  /\ UNCHANGED <<pc, currentSources, earlier>>
  /\ UNCHANGED notMNA

\* a descriptor as it is handed to a constructor: nothing solved yet
Fresh(list) == Tuple([i \in 1..Len(list) |-> [list[i] EXCEPT !.currentSolution = Undefined]])

\* the batteries with their voltages reversed
Reversed(list) ==
  Tuple([i \in 1..Len(list) |-> Descriptor(list[i].nodeId0, list[i].nodeId1, -list[i].value)])

\* the node ids connected to resistor i
ComponentOf(i) ==
  LET connected == getConnectedNodeIds(resistors[i].nodeId0)
  IN  { connected[k] : k \in 1..Len(connected) }

\* the resistors whose connected component has no battery and no current source
SourceFreeResistors ==
  { i \in 1..Len(resistors) :
      /\ \A k \in 1..Len(batteries) :
           {batteries[k].nodeId0, batteries[k].nodeId1} \cap ComponentOf(i) = {}
      /\ \A k \in 1..Len(currentSources) :
           {currentSources[k].nodeId0, currentSources[k].nodeId1} \cap ComponentOf(i) = {} }

\* The circuits that are constructed after this one to compare it with: the
\* same circuit with every battery voltage reversed, and the same circuit
\* without one of its source-free resistors.
RelatedCircuits ==
  { [relation |-> "reversed", removed |-> 0, component |-> {},
     circuit |-> Circuit(Reversed(batteries), Fresh(resistors), Fresh(currentSources))] :
      k \in { j \in {1} : Len(batteries) >= 1 } }
    \cup
  { [relation |-> "without", removed |-> i, component |-> ComponentOf(i),
     circuit |-> Circuit(Fresh(batteries), RemoveAt(Fresh(resistors), i), Fresh(currentSources))] :
      i \in SourceFreeResistors }

\* new ModifiedNodalAnalysisCircuit( batteries, resistors, currentSources )
\* for a circuit related to the one that has been solved, which is kept with
\* its Solution
Construct ==
  /\ pc = "mna"
  /\ ~thrown
  /\ earlier = << >>
  /\ Len(solutions) >= 1
  /\ \E c \in RelatedCircuits :
       /\ earlier' = <<[relation |-> c.relation, removed |-> c.removed,
                        component |-> c.component,
                        batteries |-> batteries, resistors |-> resistors,
                        currentSources |-> currentSources,
                        solution |-> solutions[Len(solutions)]]>>
       /\ batteries' = c.circuit.batteries
       /\ resistors' = c.circuit.resistors
       /\ currentSources' = c.circuit.currentSources
  /\ equations' = << >>
  /\ unknowns' = << >>
  /\ columns' = 0
  /\ solutions' = << >>
  /\ caught' = FALSE
  /\ UNCHANGED <<pc, thrown>>
  /\ UNCHANGED notMNA

NextMNA ==
  \/ Solve
  \/ Construct

SpecMNA == InitMNA /\ [][NextMNA]_vars

(***************************************************************************)
(* Properties of ModifiedNodalAnalysisCircuit                              *)
(***************************************************************************)

\* the value of an unknown in the last Solution
ValueOf(variable) ==
  IF variable.kind = "V" THEN solutions[Len(solutions)].nodeVoltages[variable.node]
  ELSE ElementAt(variable.element).currentSolution

RECURSIVE TermSum(_)
TermSum(terms) ==
  IF terms = << >> THEN Zero
  ELSE RAdd(RMul(Head(terms).coefficient, ValueOf(Head(terms).variable)),
            TermSum(Tail(terms)))

\* Whenever the decomposition succeeds, the solution satisfies every equation
\* exactly: a system of full column rank is consistent here, so that its
\* least-squares solution is its solution.
SolutionSatisfiesEquations ==
  (pc = "mna" /\ Len(solutions) >= 1 /\ ~caught) =>
    \A i \in 1..Len(equations) : TermSum(equations[i].terms) = equations[i].value

AllZero(solution) ==
  /\ \A n \in DOMAIN solution.nodeVoltages : solution.nodeVoltages[n] = Zero
  /\ \A k \in 1..Len(solution.elements) : solution.elements[k].currentSolution = Zero

\* C4: solve() never raises; when the decomposition fails, the Solution it
\* returns has every node voltage 0 and every unknown current 0.
C4_SolveNeverRaises ==
  pc = "mna" =>
    /\ ~thrown
    /\ (Len(solutions) >= 1 /\ caught) => AllZero(solutions[Len(solutions)])

\* a rank-deficient circuit with a battery was solved: the fallback ran
C4_Witness ==
  /\ pc = "mna"
  /\ caught
  /\ Len(solutions) >= 1
  /\ Len(batteries) >= 1
  /\ DOMAIN solutions[1].nodeVoltages # {}
  /\ AllZero(solutions[1])

SameInputs(e, f) ==
  /\ e.nodeId0 = f.nodeId0
  /\ e.nodeId1 = f.nodeId1
  /\ e.value = f.value

\* C5 as stated: a call of solve() changes no descriptor, and two calls on
\* the same inputs return equal Solutions.
C5_SolveLeavesDescriptorsAlone ==
  [][(pc = "mna" /\ earlier' = earlier) =>
       /\ batteries' = batteries
       /\ resistors' = resistors
       /\ currentSources' = currentSources
       /\ Len(solutions') = 2 => solutions'[1] = solutions'[2]]_vars

\* C5, amended: a call of solve() changes no nodeId0, nodeId1 or value, and
\* nothing at all of a current source or of a resistor with resistance; two
\* calls on the same inputs return equal Solutions; what a call writes is the
\* currentSolution of every battery and of every resistor without resistance.
C5_SolveWritesOnlyCurrentSolution ==
  [][(pc = "mna" /\ earlier' = earlier) =>
       /\ Len(batteries') = Len(batteries)
       /\ Len(resistors') = Len(resistors)
       /\ \A i \in 1..Len(batteries) :
            /\ SameInputs(batteries'[i], batteries[i])
            /\ batteries'[i].currentSolution # Undefined
       /\ \A i \in 1..Len(resistors) :
            /\ SameInputs(resistors'[i], resistors[i])
            /\ IF resistors[i].value = 0
                 THEN resistors'[i].currentSolution # Undefined
                 ELSE resistors'[i] = resistors[i]
       /\ currentSources' = currentSources
       /\ Len(solutions') = 2 => solutions'[1] = solutions'[2]]_vars

\* solve() was called twice on a circuit whose battery drives a current
C5_Witness ==
  /\ pc = "mna"
  /\ Len(solutions) = 2
  /\ ~caught
  /\ Len(batteries) >= 1
  /\ batteries[1].currentSolution # Undefined
  /\ batteries[1].currentSolution # Zero
  /\ solutions[1] = solutions[2]

\* two nodes are adjacent when an element joins them
Adjacent(x, y) ==
  \E k \in 1..Len(elements) :
    LET e == ElementAt(elements[k])
    IN  \/ e.nodeId0 = x /\ e.nodeId1 = y
        \/ e.nodeId0 = y /\ e.nodeId1 = x

RECURSIVE Closure(_)
Closure(S) ==
  LET T == S \cup { y \in nodeSet : \E x \in S : Adjacent(x, y) }
  IN  IF T = S THEN S ELSE Closure(T)

\* the connected components of the node graph
Components == { Closure({n}) : n \in nodeSet }

\* a reference equation: V = 0 for one node
IsReferenceEquation(eq) ==
  /\ eq.value = Zero
  /\ Len(eq.terms) = 1
  /\ eq.terms[1].coefficient = One
  /\ eq.terms[1].variable.kind = "V"

ReferenceEquationsIn(C) ==
  { i \in 1..Len(equations) :
      IsReferenceEquation(equations[i]) /\ equations[i].terms[1].variable.node \in C }

\* C6: the equation list holds exactly one reference equation V = 0 for each
\* connected component of the node graph, for a node of that component.
C6_OneReferencePerComponent ==
  (pc = "mna" /\ Len(solutions) >= 1) =>
    \A C \in Components : Cardinality(ReferenceEquationsIn(C)) = 1

\* a circuit of two components, one of them held together by a current
\* source alone, has its equations
C6_Witness ==
  /\ pc = "mna"
  /\ Len(solutions) >= 1
  /\ Cardinality(Components) = 2
  /\ Len(currentSources) = 1
  /\ Len(batteries) + Len(resistors) = 1
  /\ \A C \in Components : Cardinality(ReferenceEquationsIn(C)) = 1

\* the distinct node ids that the descriptors name
DistinctNodeIds ==
  { batteries[i].nodeId0 : i \in 1..Len(batteries) }
    \cup { batteries[i].nodeId1 : i \in 1..Len(batteries) }
    \cup { resistors[i].nodeId0 : i \in 1..Len(resistors) }
    \cup { resistors[i].nodeId1 : i \in 1..Len(resistors) }
    \cup { currentSources[i].nodeId0 : i \in 1..Len(currentSources) }
    \cup { currentSources[i].nodeId1 : i \in 1..Len(currentSources) }

\* the resistors with resistance exactly 0
ZeroResistors == { i \in 1..Len(resistors) : resistors[i].value = 0 }

\* the unknowns that the circuit calls for
ExpectedUnknowns ==
  { UnknownVoltage(n) : n \in DistinctNodeIds }
    \cup { UnknownCurrent(ElementRef("batteries", i)) : i \in 1..Len(batteries) }
    \cup { UnknownCurrent(ElementRef("resistors", i)) : i \in ZeroResistors }

\* C16: the unknown list of a solve holds exactly one voltage unknown per
\* distinct node id, one current unknown per battery and one per resistor
\* with resistance 0, and nothing else; the matrix has as many columns as the
\* list has entries, and every unknown is mapped to a column of its own.
C16_UnknownsAndColumns ==
  (pc = "mna" /\ Len(solutions) >= 1) =>
    /\ { unknowns[k] : k \in 1..Len(unknowns) } = ExpectedUnknowns
    /\ Len(unknowns) = Cardinality(ExpectedUnknowns)
    /\ columns = Len(unknowns)
    /\ \A k \in 1..Len(unknowns) : getIndexByEquals(unknowns, unknowns[k]) = k

\* a circuit of three nodes with a battery, a resistor with resistance and a
\* resistor without has been solved with five unknowns
C16_Witness ==
  /\ pc = "mna"
  /\ Len(solutions) >= 1
  /\ Len(batteries) = 1
  /\ Cardinality(ZeroResistors) = 1
  /\ Len(resistors) = 2
  /\ Cardinality(DistinctNodeIds) = 3
  /\ Len(unknowns) = 5
  /\ columns = 5

\* the place in the equation list of the current-conservation equation of
\* node n: after the reference equations, in ascending order of the node ids
KCLIndex(n) == Cardinality(Components) + IndexOf(Ascending(DistinctNodeIds), n)

\* the elements whose unknown current stands in an equation
CurrentElementsOf(eq) ==
  { eq.terms[j].variable.element :
      j \in { k \in 1..Len(eq.terms) : eq.terms[k].variable.kind = "I" } }

\* the batteries and resistors without resistance that touch node n
CurrentElementsAt(n) ==
  { ElementRef("batteries", i) :
      i \in { k \in 1..Len(batteries) : containsNodeId(batteries[k], n) } }
    \cup { ElementRef("resistors", i) :
             i \in { k \in ZeroResistors : containsNodeId(resistors[k], n) } }

\* the current sources' values leaving node n less those entering it
SourceSum(n) ==
  SeqSum([i \in 1..Len(currentSources) |->
            IF currentSources[i].nodeId0 = n THEN currentSources[i].value ELSE 0])
    - SeqSum([i \in 1..Len(currentSources) |->
                IF currentSources[i].nodeId1 = n THEN currentSources[i].value ELSE 0])

\* C17: the equation list holds exactly one current-conservation equation
\* per distinct node; its right-hand side is the sum of the values of the
\* current sources whose nodeId0 is the node less the sum of the values of
\* those whose nodeId1 is the node.
C17_OneKCLPerNode ==
  (pc = "mna" /\ Len(solutions) >= 1) =>
    /\ Len(equations) = Cardinality(Components) + Cardinality(DistinctNodeIds)
                          + Len(batteries) + Cardinality(ZeroResistors)
    /\ \A n \in DistinctNodeIds :
         /\ equations[KCLIndex(n)].value = FromInt(SourceSum(n))
         /\ CurrentElementsOf(equations[KCLIndex(n)]) = CurrentElementsAt(n)

\* a circuit with two current sources leaving one node has been solved: the
\* right-hand side of that node's equation is the sum of both values
C17_Witness ==
  /\ pc = "mna"
  /\ Len(solutions) >= 1
  /\ Len(currentSources) = 2
  /\ \E n \in DistinctNodeIds :
       /\ SourceSum(n) = currentSources[1].value + currentSources[2].value
       /\ equations[KCLIndex(n)].value = FromInt(SourceSum(n))
  /\ \E n \in DistinctNodeIds : equations[KCLIndex(n)].value = FromInt(0 - currentSources[1].value)

HasTerm(eq, t) == \E j \in 1..Len(eq.terms) : eq.terms[j] = t

\* the equations in which the unknown current of resistor i stands
MentionsCurrentOf(i) ==
  { k \in 1..Len(equations) : ElementRef("resistors", i) \in CurrentElementsOf(equations[k]) }

\* the equation V(nodeId0) = V(nodeId1) of resistor i
ShortEquation(i) ==
  Equation(Zero, <<Term(One, UnknownVoltage(resistors[i].nodeId0)),
                   Term(FromInt(-1), UnknownVoltage(resistors[i].nodeId1))>>)

\* C18: a resistor contributes an unknown current to the current-conservation
\* equations of its two nodes, and the equation V(nodeId0) = V(nodeId1), if
\* and only if its resistance is exactly 0; otherwise it contributes Ohm's-law
\* voltage terms only. The equations, the list of unknown currents and the
\* count of unknowns make the same choice.
C18_ZeroResistanceChoice ==
  (pc = "mna" /\ Len(solutions) >= 1) =>
    LET zr == Ascending(ZeroResistors)
        shortsFrom == Len(equations) - Len(zr)
        I(i) == UnknownCurrent(ElementRef("resistors", i))
        V0(i) == UnknownVoltage(resistors[i].nodeId0)
        V1(i) == UnknownVoltage(resistors[i].nodeId1)
        KCL0(i) == equations[KCLIndex(resistors[i].nodeId0)]
        KCL1(i) == equations[KCLIndex(resistors[i].nodeId1)]
    IN  /\ \A i \in 1..Len(resistors) :
             IF resistors[i].value = 0
               THEN /\ HasTerm(KCL0(i), Term(One, I(i)))
                    /\ HasTerm(KCL1(i), Term(FromInt(-1), I(i)))
                    /\ MentionsCurrentOf(i) = { KCLIndex(resistors[i].nodeId0),
                                                KCLIndex(resistors[i].nodeId1) }
                    /\ getIndexByEquals(unknowns, I(i)) # 0
               ELSE /\ MentionsCurrentOf(i) = {}
                    /\ getIndexByEquals(unknowns, I(i)) = 0
                    /\ HasTerm(KCL0(i), Term(Rat(1, resistors[i].value), V0(i)))
                    /\ HasTerm(KCL0(i), Term(Rat(-1, resistors[i].value), V1(i)))
                    /\ HasTerm(KCL1(i), Term(Rat(1, resistors[i].value), V1(i)))
                    /\ HasTerm(KCL1(i), Term(Rat(-1, resistors[i].value), V0(i)))
        /\ shortsFrom = Cardinality(Components) + Cardinality(DistinctNodeIds) + Len(batteries)
        /\ \A j \in 1..Len(zr) : equations[shortsFrom + j] = ShortEquation(zr[j])
        /\ Cardinality({ k \in 1..Len(unknowns) : unknowns[k].kind = "I" })
             = Len(batteries) + Len(zr)
        /\ columns = Cardinality(DistinctNodeIds) + Len(batteries) + Len(zr)

\* a circuit with a resistor without resistance next to a resistor with
\* resistance has been solved: one equation V(nodeId0) = V(nodeId1), and the
\* unknown current of the first resistor only
C18_Witness ==
  /\ pc = "mna"
  /\ Len(solutions) >= 1
  /\ Len(resistors) = 2
  /\ resistors[1].value # 0
  /\ resistors[2].value = 0
  /\ equations[Len(equations)] = ShortEquation(2)
  /\ MentionsCurrentOf(2) # {}
  /\ MentionsCurrentOf(1) = {}

\* the circuit solved before this one, this one being the same without one
\* source-free resistor, and this one has been solved too
SolvedWithAndWithout ==
  /\ pc = "mna"
  /\ earlier # << >>
  /\ earlier[1].relation = "without"
  /\ Len(solutions) >= 1

\* the place that resistor j of the earlier circuit has in this one
PlaceWithout(j) == IF j < earlier[1].removed THEN j ELSE j - 1

SolvedBothWays ==
  /\ pc = "mna"
  /\ earlier # << >>
  /\ earlier[1].relation = "reversed"
  /\ Len(batteries) = 1
  /\ currentSources = << >>
  /\ Len(solutions) >= 1

\* C20: in a circuit driven by one battery, replacing the battery voltage V
\* by -V turns the solved current of every element into its negative: that
\* of the battery, of every resistor without resistance and, through the
\* voltage across it, of every resistor with resistance.
C20_ReversedVoltageReversesCurrents ==
  SolvedBothWays =>
    LET before == earlier[1]
        after == solutions[Len(solutions)]
        drop(solution, r) == RSub(solution.nodeVoltages[r.nodeId1], solution.nodeVoltages[r.nodeId0])
    IN  /\ batteries[1].value = -before.batteries[1].value
        /\ batteries[1].currentSolution = RNeg(before.batteries[1].currentSolution)
        /\ \A j \in 1..Len(resistors) :
             IF resistors[j].value = 0
               THEN resistors[j].currentSolution = RNeg(before.resistors[j].currentSolution)
               ELSE drop(after, resistors[j]) = RNeg(drop(before.solution, resistors[j]))

\* a battery has driven the current 1 through a resistor and, reversed, the
\* current -1
C20_Witness ==
  /\ SolvedBothWays
  /\ Len(resistors) = 1
  /\ resistors[1].value # 0
  /\ earlier[1].batteries[1].currentSolution = One
  /\ batteries[1].currentSolution = RNeg(One)

\* ModifiedNodalAnalysisSolution.getCurrentForResistor: the voltage drop from
\* nodeId0 to nodeId1 over the resistance
getCurrentForResistor(solution, resistor) ==
  RDiv(RSub(solution.nodeVoltages[resistor.nodeId0], solution.nodeVoltages[resistor.nodeId1]),
       FromInt(resistor.value))

\* a battery from its nodeId0 to its nodeId1 and a resistor with resistance
\* from the battery's nodeId1 back to its nodeId0 have been solved
TwoNodeLoopSolved ==
  /\ pc = "mna"
  /\ Len(solutions) >= 1
  /\ Len(batteries) = 1
  /\ Len(resistors) = 1
  /\ currentSources = << >>
  /\ resistors[1].value > 0
  /\ resistors[1].nodeId0 = batteries[1].nodeId1
  /\ resistors[1].nodeId1 = batteries[1].nodeId0

\* C21 as stated: for a battery of voltage V from node0 to node1 and a
\* resistor R > 0 closing the loop, solve() gives V(node0) = 0, V(node1) = V
\* and the current V/R in the battery and in the resistor.
C21_LoopVoltagesAndCurrent ==
  TwoNodeLoopSolved =>
    LET solution == solutions[Len(solutions)]
        VoverR == Rat(batteries[1].value, resistors[1].value)
    IN  /\ solution.nodeVoltages[batteries[1].nodeId0] = Zero
        /\ solution.nodeVoltages[batteries[1].nodeId1] = FromInt(batteries[1].value)
        /\ batteries[1].currentSolution = VoverR
        /\ getCurrentForResistor(solution, resistors[1]) = VoverR

\* C21, amended: solve() gives V(node1) - V(node0) = V with the node of the
\* lower id at 0 V, and the current V/R in the battery and in the resistor.
C21_LoopVoltageDropAndCurrent ==
  TwoNodeLoopSolved =>
    LET solution == solutions[Len(solutions)]
        VoverR == Rat(batteries[1].value, resistors[1].value)
        lower == Min(batteries[1].nodeId0, batteries[1].nodeId1)
    IN  /\ RSub(solution.nodeVoltages[batteries[1].nodeId1],
                solution.nodeVoltages[batteries[1].nodeId0]) = FromInt(batteries[1].value)
        /\ solution.nodeVoltages[lower] = Zero
        /\ batteries[1].currentSolution = VoverR
        /\ getCurrentForResistor(solution, resistors[1]) = VoverR

\* the battery of 4 V from node 1 to node 0 has been solved with its 4 ohm
\* resistor: node 0 is at 0 V, node 1 at -4 V, and the current is 1
C21_Witness ==
  /\ TwoNodeLoopSolved
  /\ batteries[1].nodeId0 = 1
  /\ batteries[1].nodeId1 = 0
  /\ batteries[1].value = 4
  /\ resistors[1].value = 4
  /\ solutions[Len(solutions)].nodeVoltages[1] = FromInt(-4)
  /\ batteries[1].currentSolution = One

(***************************************************************************)
(* ModifiedNodalAnalysisAdapter                                            *)
(***************************************************************************)

\* CCKCQueryParameters.batteryCurrentThreshold, in the current unit of the model
batteryCurrentThreshold == 10

\* CCKCConstants.MINIMUM_RESISTANCE, in the resistance unit of the model
MINIMUM_RESISTANCE == 1

\* the largest number of circuit elements of an enumerated circuit
MaxCircuitElements == 3

\* the indices of circuit.vertexGroup
Vertices == 0..2

\* a circuit element before the call: it shows a current from an earlier
\* frame; a capacitor or an inductor is uncharged
CircuitElement(type, startVertex, endVertex, closed, real) ==
  [type |-> type, startVertex |-> startVertex, endVertex |-> endVertex,
   closed |-> closed, real |-> real,
   current |-> 7, voltage |-> 4, internalResistance |-> 2,
   resistance |-> IF type = "LightBulb" THEN 10 ELSE 0,
   mnaVoltageDrop |-> 0, mnaCurrent |-> 0]

\* the elements the enumerated circuits are made of
ElementChoices ==
  { CircuitElement("Battery", 0, 2, TRUE, FALSE),
    CircuitElement("Battery", 0, 1, TRUE, FALSE),
    CircuitElement("Wire", 0, 2, TRUE, FALSE),
    CircuitElement("Wire", 1, 2, TRUE, FALSE),
    CircuitElement("LightBulb", 0, 2, TRUE, TRUE),
    CircuitElement("Switch", 1, 2, FALSE, FALSE),
    CircuitElement("Capacitor", 0, 2, TRUE, FALSE),
    CircuitElement("Inductor", 1, 2, TRUE, FALSE) }

AdapterCircuits == UNION { [1..n -> ElementChoices] : n \in 0..MaxCircuitElements }

\* circuitElement instanceof VoltageSource
IsVoltageSource(e) == e.type = "Battery"

\* the test of lines 185-192 and of lines 299-301
IsClosedConductor(e) ==
  \/ e.type \in {"Resistor", "Fuse", "Wire", "LightBulb", "SeriesAmmeter"}
  \/ e.type = "Switch" /\ e.closed

\* circuitElement instanceof Switch && !circuitElement.closedProperty.value
IsOpenSwitch(e) == e.type = "Switch" /\ ~e.closed

\* resistorAdapter.circuitElement instanceof LightBulb && resistorAdapter.circuitElement.real
IsRealLightBulb(e) == e.type = "LightBulb" /\ e.real

Touches(e, v) == e.startVertex = v \/ e.endVertex = v

OppositeVertex(e, v) == IF e.startVertex = v THEN e.endVertex ELSE e.startVertex

\* there is a path from vertex from to vertex to, over elements not in used
\* and vertices not in seen, none of them an open switch, that holds a voltage
\* source unless hasSource
RECURSIVE LoopPath(_, _, _, _, _)
LoopPath(from, to, used, seen, hasSource) ==
  \E k \in (1..Len(circuitElements)) \ used :
    LET e == circuitElements[k]
        o == OppositeVertex(e, from)
        src == hasSource \/ IsVoltageSource(e)
    IN  /\ Touches(e, from)
        /\ ~IsOpenSwitch(e)
        /\ \/ o = to /\ src
           \/ o # to /\ o \notin seen /\ LoopPath(o, to, used \cup {k}, seen \cup {o}, src)

\* circuit.isInLoopWithVoltageSource( circuitElement ): the element lies on a
\* closed loop of the circuit that holds a voltage source
isInLoopWithVoltageSource(i) ==
  LET e == circuitElements[i]
  IN  /\ ~IsOpenSwitch(e)
      /\ LoopPath(e.endVertex, e.startVertex, {i}, {e.endVertex}, IsVoltageSource(e))

Indices == Tuple([i \in 1..Len(circuitElements) |-> i])

\* new ResistiveBatteryAdapter( circuit, battery )
ResistiveBatteryAdapter(i) ==
  [element |-> i,
   nodeId0 |-> circuitElements[i].startVertex,
   nodeId1 |-> circuitElements[i].endVertex,
   voltage |-> circuitElements[i].voltage,
   resistance |-> circuitElements[i].internalResistance]

ResistorAdapterOfModelResistance(i) ==
  [element |-> i,
   nodeId0 |-> circuitElements[i].startVertex,
   nodeId1 |-> circuitElements[i].endVertex,
   value |-> circuitElements[i].resistance,
   resistance |-> Undefined]

\* new ResistorAdapter( circuit, resistor ); the field resistance is unset
ResistorAdapter(i) ==
  [element |-> i,
   nodeId0 |-> circuitElements[i].startVertex,
   nodeId1 |-> circuitElements[i].endVertex,
   value |-> IF circuitElements[i].resistance # 0
               THEN circuitElements[i].resistance
               ELSE MINIMUM_RESISTANCE,
   resistance |-> Undefined]

DynamicAdapterOfRest(i) ==
  [element |-> i,
   nodeId0 |-> circuitElements[i].startVertex,
   nodeId1 |-> circuitElements[i].endVertex,
   mnaVoltageDrop |-> circuitElements[i].mnaVoltageDrop,
   mnaCurrent |-> circuitElements[i].mnaCurrent + 1]

\* new CapacitorAdapter( circuit, capacitor ), new InductorAdapter( circuit, inductor )
DynamicAdapter(i) ==
  [element |-> i,
   nodeId0 |-> circuitElements[i].startVertex,
   nodeId1 |-> circuitElements[i].endVertex,
   mnaVoltageDrop |-> circuitElements[i].mnaVoltageDrop,
   mnaCurrent |-> circuitElements[i].mnaCurrent]

\* the branches of the if chain of lines 179-207, in their order
IsBatteryBranch(i) ==
  isInLoopWithVoltageSource(i) /\ IsVoltageSource(circuitElements[i])

IsResistorBranch(i) ==
  /\ isInLoopWithVoltageSource(i)
  /\ ~IsVoltageSource(circuitElements[i])
  /\ IsClosedConductor(circuitElements[i])

IsCapacitorBranch(i) ==
  /\ isInLoopWithVoltageSource(i)
  /\ ~IsVoltageSource(circuitElements[i])
  /\ ~IsClosedConductor(circuitElements[i])
  /\ ~IsOpenSwitch(circuitElements[i])
  /\ circuitElements[i].type = "Capacitor"

IsInductorBranch(i) ==
  /\ isInLoopWithVoltageSource(i)
  /\ ~IsVoltageSource(circuitElements[i])
  /\ ~IsClosedConductor(circuitElements[i])
  /\ ~IsOpenSwitch(circuitElements[i])
  /\ circuitElements[i].type # "Capacitor"
  /\ circuitElements[i].type = "Inductor"

IsNonParticipant(i) == ~isInLoopWithVoltageSource(i)

InitAdapter ==
  /\ pc = "classify"
  /\ circuitElements \in AdapterCircuits
  /\ vertexVoltage = [v \in Vertices |-> 7]
  /\ participants = << >>
  /\ nonParticipants = << >>
  /\ resistiveBatteryAdapters = << >>
  /\ resistorAdapters = << >>
  /\ capacitorAdapters = << >>
  /\ inductorAdapters = << >>
  /\ results = << >>
  /\ needsHelp = FALSE
  /\ visitedVertices = << >>
  /\ seedIndex = 0
  /\ IdleTS
  /\ IdleMNA
  /\ IdleLTA
  /\ IdleCircuit
  /\ IdleModel

\* lines 164-210: sort the circuit elements into participants and non
\* participants, and make the adapters of the participants
Classify ==
  /\ pc = "classify"
  /\ participants' = SelectSeq(Indices, isInLoopWithVoltageSource)
  /\ nonParticipants' = SelectSeq(Indices, IsNonParticipant)
  /\ resistiveBatteryAdapters' =
       LET sel == SelectSeq(Indices, IsBatteryBranch)
       IN  Tuple([k \in 1..Len(sel) |-> ResistiveBatteryAdapter(sel[k])])
  /\ resistorAdapters' =
       LET sel == SelectSeq(Indices, IsResistorBranch)
       IN  Tuple([k \in 1..Len(sel) |-> ResistorAdapter(sel[k])])
  /\ capacitorAdapters' =
       LET sel == SelectSeq(Indices, IsCapacitorBranch)
       IN  Tuple([k \in 1..Len(sel) |-> DynamicAdapter(sel[k])])
  /\ inductorAdapters' =
       LET sel == SelectSeq(Indices, IsInductorBranch)
       IN  Tuple([k \in 1..Len(sel) |-> DynamicAdapter(sel[k])])
  /\ pc' = "solve"
  /\ UNCHANGED <<circuitElements, vertexVoltage, results, needsHelp, visitedVertices, seedIndex>>
  /\ UNCHANGED notAdapter

ElementsOf(adapters) == { adapters[k].element : k \in 1..Len(adapters) }

NodesOf(adapters) ==
  { adapters[k].nodeId0 : k \in 1..Len(adapters) }
    \cup { adapters[k].nodeId1 : k \in 1..Len(adapters) }

\* the nodes of the dynamic circuit that are vertices of the circuit
solverNodes ==
  NodesOf(resistiveBatteryAdapters) \cup NodesOf(resistorAdapters)
    \cup NodesOf(capacitorAdapters) \cup NodesOf(inductorAdapters)

\* the time-averaged currents a battery adapter may be found to have: at the
\* threshold, above it, and above it in the other direction
BatteryCurrents ==
  { batteryCurrentThreshold, batteryCurrentThreshold + 1, -(batteryCurrentThreshold + 1) }

\* dynamicCircuit.solveWithSubdivisions( TIMESTEP_SUBDIVISIONS, dt ): a result
\* gives every adapter a current and every node of the dynamic circuit a
\* voltage. One battery adapter has one of BatteryCurrents and the others no
\* current, the other adapters have a current of 3; the lowest node is at 0
\* and the other nodes are all at 0 or all at 4. The dynamic circuit solves in
\* one sub-step, so that instantaneous and time-averaged values agree.
CircuitResults ==
  LET batteryElements == ElementsOf(resistiveBatteryAdapters)
      otherElements == ElementsOf(resistorAdapters) \cup ElementsOf(capacitorAdapters)
                         \cup ElementsOf(inductorAdapters)
      currents(k, l) ==
        [i \in batteryElements \cup otherElements |->
           IF i = k THEN l ELSE IF i \in batteryElements THEN 0 ELSE 3]
      voltages(u) ==
        [n \in solverNodes |-> IF \A m \in solverNodes : n <= m THEN 0 ELSE u]
  IN  { [current |-> c, nodeVoltage |-> voltages(u)] :
          c \in IF batteryElements = {}
                  THEN { currents(0, 0) }
                  ELSE { currents(k, l) : k \in batteryElements, l \in BatteryCurrents },
          u \in {0, 4} }

\* circuitResult.getTimeAverageCurrent( adapter )
getTimeAverageCurrent(circuitResult, adapter) == circuitResult.current[adapter.element]

\* circuitResult.getInstantaneousCurrent( adapter )
getInstantaneousCurrent(circuitResult, adapter) == circuitResult.current[adapter.element]

\* CCKCUtils.clampMagnitude
clampMagnitude(v) ==
  IF v > 1000000 THEN 1000000 ELSE IF v < -1000000 THEN -1000000 ELSE v

ExceedsThresholdInclusive(current) == Abs(current) >= batteryCurrentThreshold

\* Math.abs( circuitResult.getTimeAverageCurrent( batteryAdapter ) ) > CCKCQueryParameters.batteryCurrentThreshold
ExceedsThreshold(current) == Abs(current) > batteryCurrentThreshold

\* 1000 * Math.log( value ) / Math.log( 2 ), rounded down, of the values reached
logWithBase(value) == IF value = 2 THEN 1000 ELSE 2584

\* 10 + coefficient * V / logWithBase( V + base, base ), in whole ohms
BulbResistance(V) == 10 + (3 * V * 1000) \div logWithBase(V + 2)

\* line 211: the first solve
FirstSolve ==
  /\ pc = "solve"
  /\ \E circuitResult \in CircuitResults : results' = Append(results, circuitResult)
  /\ pc' = "correct"
  /\ UNCHANGED <<circuitElements, vertexVoltage, participants, nonParticipants,
                 resistiveBatteryAdapters, resistorAdapters, capacitorAdapters,
                 inductorAdapters, needsHelp, visitedVertices, seedIndex>>
  /\ UNCHANGED notAdapter

\* lines 215-254: decide whether the solution needs help, and change the
\* resistances of the real light bulbs and of the batteries over the threshold
Correct ==
  /\ pc = "correct"
  /\ LET circuitResult == results[Len(results)]
         bulb(adapter) == IsRealLightBulb(circuitElements[adapter.element])
         over(adapter) == ExceedsThreshold(getTimeAverageCurrent(circuitResult, adapter))
         V(adapter) == Abs(circuitResult.nodeVoltage[adapter.nodeId1]
                             - circuitResult.nodeVoltage[adapter.nodeId0])
     IN  /\ needsHelp' = (\/ \E k \in 1..Len(resistorAdapters) : bulb(resistorAdapters[k])
                          \/ \E k \in 1..Len(resistiveBatteryAdapters) :
                               over(resistiveBatteryAdapters[k]))
         /\ resistorAdapters' =
              Tuple([k \in 1..Len(resistorAdapters) |->
                       IF bulb(resistorAdapters[k])
                         THEN [resistorAdapters[k] EXCEPT
                                 !.resistance = 1,
                                 !.value = BulbResistance(V(resistorAdapters[k]))]
                         ELSE resistorAdapters[k]])
         /\ resistiveBatteryAdapters' =
              Tuple([k \in 1..Len(resistiveBatteryAdapters) |->
                       IF over(resistiveBatteryAdapters[k])
                         THEN [resistiveBatteryAdapters[k] EXCEPT
                                 !.resistance =
                                   circuitElements[resistiveBatteryAdapters[k].element].internalResistance]
                         ELSE resistiveBatteryAdapters[k]])
         /\ circuitElements' =
              Tuple([i \in 1..Len(circuitElements) |->
                       IF \E k \in 1..Len(resistorAdapters) :
                            resistorAdapters[k].element = i /\ bulb(resistorAdapters[k])
                         THEN [circuitElements[i] EXCEPT
                                 !.resistance =
                                   BulbResistance(V(ResistorAdapter(i)))]
                         ELSE circuitElements[i]])
  /\ pc' = IF needsHelp' THEN "resolve" ELSE "apply"
  /\ UNCHANGED <<vertexVoltage, participants, nonParticipants, capacitorAdapters,
                 inductorAdapters, results, visitedVertices, seedIndex>>
  /\ UNCHANGED notAdapter

\* lines 256-258: if ( needsHelp ) the second solve
SecondSolve ==
  /\ pc = "resolve"
  /\ needsHelp
  /\ \E circuitResult \in CircuitResults : results' = Append(results, circuitResult)
  /\ pc' = "apply"
  /\ UNCHANGED <<circuitElements, vertexVoltage, participants, nonParticipants,
                 resistiveBatteryAdapters, resistorAdapters, capacitorAdapters,
                 inductorAdapters, needsHelp, visitedVertices, seedIndex>>
  /\ UNCHANGED notAdapter

KeptCurrent(current) == current

\* circuitElement.currentProperty.set( 0 )
ZeroedCurrent(current) == 0

AdapterFor(adapters, i) == adapters[CHOOSE k \in 1..Len(adapters) : adapters[k].element = i]

\* lines 260-266: every adapter applies the solution to its circuit element,
\* then the currents of the non participants are set to 0
ApplySolution ==
  /\ pc = "apply"
  /\ LET circuitResult == results[Len(results)]
         drop(adapter) == circuitResult.nodeVoltage[adapter.nodeId1]
                            - circuitResult.nodeVoltage[adapter.nodeId0]
         applied(i) ==
           LET e == circuitElements[i]
           IN  IF i \in ElementsOf(resistiveBatteryAdapters)
                 THEN [e EXCEPT !.current =
                         getTimeAverageCurrent(circuitResult, AdapterFor(resistiveBatteryAdapters, i))]
               ELSE IF i \in ElementsOf(resistorAdapters)
                 THEN [e EXCEPT !.current =
                         getTimeAverageCurrent(circuitResult, AdapterFor(resistorAdapters, i))]
               ELSE IF i \in ElementsOf(capacitorAdapters)
                 THEN LET ad == AdapterFor(capacitorAdapters, i)
                      IN  [e EXCEPT !.current = getTimeAverageCurrent(circuitResult, ad),
                                    !.mnaCurrent =
                                      clampMagnitude(getInstantaneousCurrent(circuitResult, ad)),
                                    !.mnaVoltageDrop = clampMagnitude(drop(ad))]
               ELSE IF i \in ElementsOf(inductorAdapters)
                 THEN LET ad == AdapterFor(inductorAdapters, i)
                      IN  [e EXCEPT !.current = -getTimeAverageCurrent(circuitResult, ad),
                                    !.mnaCurrent =
                                      clampMagnitude(getInstantaneousCurrent(circuitResult, ad)),
                                    !.mnaVoltageDrop = clampMagnitude(drop(ad))]
               ELSE e
         zeroed(i) ==
           IF \E k \in 1..Len(nonParticipants) : nonParticipants[k] = i
             THEN [applied(i) EXCEPT !.current = ZeroedCurrent(applied(i).current)]
             ELSE applied(i)
     IN  circuitElements' = Tuple([i \in 1..Len(circuitElements) |-> zeroed(i)])
  /\ pc' = "voltages"
  /\ UNCHANGED <<vertexVoltage, participants, nonParticipants, resistiveBatteryAdapters,
                 resistorAdapters, capacitorAdapters, inductorAdapters, results,
                 needsHelp, visitedVertices, seedIndex>>
  /\ UNCHANGED notAdapter

\* lines 268-284: the vertices that have a voltage in the solution get it and
\* count as visited, the others get 0
ApplyNodeVoltages ==
  /\ pc = "voltages"
  /\ LET circuitResult == results[Len(results)]
     IN  /\ vertexVoltage' =
              [v \in Vertices |->
                 IF v \in DOMAIN circuitResult.nodeVoltage
                   THEN circuitResult.nodeVoltage[v]
                   ELSE 0]
         /\ visitedVertices' = Ascending(Vertices \cap DOMAIN circuitResult.nodeVoltage)
  /\ seedIndex' = 1
  /\ pc' = "seed"
  /\ UNCHANGED <<circuitElements, participants, nonParticipants, resistiveBatteryAdapters,
                 resistorAdapters, capacitorAdapters, inductorAdapters, results, needsHelp>>
  /\ UNCHANGED notAdapter

\* a path element of the search
PathElement(startVertex, i, endVertex) ==
  [startVertex |-> startVertex, circuitElement |-> i, endVertex |-> endVertex]

\* what visit does to the voltages and to visitedVertices, as st.voltage and
\* st.visited
visit(st, pathElement) ==
  LET startVertex == pathElement.startVertex
      circuitElement == circuitElements[pathElement.circuitElement]
      endVertex == pathElement.endVertex
      sign == IF startVertex = circuitElement.startVertex THEN 1 ELSE -1
      reached(voltage) ==
        [voltage |-> [st.voltage EXCEPT ![endVertex] = voltage],
         visited |-> Append(st.visited, endVertex)]
  IN  IF \E k \in 1..Len(st.visited) : st.visited[k] = endVertex THEN st
      ELSE IF IsClosedConductor(circuitElement)
        THEN reached(st.voltage[startVertex])
      ELSE IF IsVoltageSource(circuitElement)
        THEN reached(st.voltage[startVertex] + sign * circuitElement.voltage)
      ELSE IF circuitElement.type \in {"Capacitor", "Inductor"}
        THEN reached(st.voltage[startVertex] + sign * circuitElement.mnaVoltageDrop)
      ELSE st

\* circuit.depthFirstSearch( path, callback ): from the end vertex of the
\* path, every circuit element there that is not on the path is reported to
\* the callback and then searched from, in the order of circuit.circuitElements;
\* k is the next circuit element to look at
RECURSIVE depthFirstSearch(_, _, _, _)
depthFirstSearch(path, vertex, k, st) ==
  IF k > Len(circuitElements) THEN st
  ELSE IF Touches(circuitElements[k], vertex) /\ (\A j \in 1..Len(path) : path[j] # k)
    THEN LET o == OppositeVertex(circuitElements[k], vertex)
             st1 == visit(st, PathElement(vertex, k, o))
             st2 == depthFirstSearch(Append(path, k), o, 1, st1)
         IN  depthFirstSearch(path, vertex, k + 1, st2)
    ELSE depthFirstSearch(path, vertex, k + 1, st)

\* lines 327-337, for one circuit element: its start vertex counts as visited,
\* the element is visited and the search starts from it
Seed ==
  /\ pc = "seed"
  /\ seedIndex <= Len(circuitElements)
  /\ \E seed \in { PathElement(circuitElements[seedIndex].startVertex, seedIndex,
                               circuitElements[seedIndex].endVertex) } :
     \E st0 \in { [voltage |-> vertexVoltage,
                   visited |-> Append(visitedVertices, seed.startVertex)] } :
     \E st1 \in { visit(st0, seed) } :
     \E st2 \in { depthFirstSearch(<<seedIndex>>, seed.endVertex, 1, st1) } :
       /\ vertexVoltage' = st2.voltage
       /\ visitedVertices' = st2.visited
  /\ seedIndex' = seedIndex + 1
  /\ UNCHANGED <<pc, circuitElements, participants, nonParticipants,
                 resistiveBatteryAdapters, resistorAdapters, capacitorAdapters,
                 inductorAdapters, results, needsHelp>>
  /\ UNCHANGED notAdapter

\* the last forEach is over: solveModifiedNodalAnalysis returns
Return ==
  /\ pc = "seed"
  /\ seedIndex > Len(circuitElements)
  /\ pc' = "returned"
  /\ UNCHANGED adapterVars
  /\ UNCHANGED notAdapter

NextAdapter ==
  \/ Classify
  \/ FirstSolve
  \/ Correct
  \/ SecondSolve
  \/ ApplySolution
  \/ ApplyNodeVoltages
  \/ Seed
  \/ Return

SpecAdapter == InitAdapter /\ [][NextAdapter]_vars

(***************************************************************************)
(* Properties of ModifiedNodalAnalysisAdapter                              *)
(***************************************************************************)

\* a real light bulb is among the elements handed to the solver
RealLightBulbParticipates ==
  \E i \in 1..Len(circuitElements) :
    isInLoopWithVoltageSource(i) /\ IsRealLightBulb(circuitElements[i])

\* the first solve found a battery with a current over the threshold
BatteryOverThreshold ==
  \E i \in DOMAIN results[1].current :
    /\ IsVoltageSource(circuitElements[i])
    /\ \/ results[1].current[i] > batteryCurrentThreshold
       \/ results[1].current[i] < -batteryCurrentThreshold

\* C7: one call runs solveWithSubdivisions at most twice, and a second time
\* only when a real light bulb participates or the first solve found a
\* battery whose time-averaged current is over the threshold in magnitude.
C7_AtMostOneResolve ==
  /\ Len(results) <= 2
  /\ Len(results) = 2 => (RealLightBulbParticipates \/ BatteryOverThreshold)

\* the call returned after a second solve that still left a battery over the
\* threshold
C7_Witness ==
  /\ pc = "returned"
  /\ Len(results) = 2
  /\ ~RealLightBulbParticipates
  /\ BatteryOverThreshold
  /\ \E i \in DOMAIN results[2].current :
       IsVoltageSource(circuitElements[i]) /\ results[2].current[i] > batteryCurrentThreshold

HandedToSolver(i) ==
  i \in ElementsOf(resistiveBatteryAdapters) \cup ElementsOf(resistorAdapters)
          \cup ElementsOf(capacitorAdapters) \cup ElementsOf(inductorAdapters)

\* C8: after the call has returned, every circuit element that is not in a
\* loop with a voltage source has current 0 and has no adapter.
C8_NonParticipantsCarryNoCurrent ==
  pc = "returned" =>
    \A i \in 1..Len(circuitElements) :
      ~isInLoopWithVoltageSource(i) =>
        circuitElements[i].current = 0 /\ ~HandedToSolver(i)

\* the call returned for a circuit with an element outside every loop and an
\* element in a loop that carries a current
C8_Witness ==
  /\ pc = "returned"
  /\ \E i \in 1..Len(circuitElements) :
       /\ ~isInLoopWithVoltageSource(i)
       /\ ~IsOpenSwitch(circuitElements[i])
       /\ circuitElements[i].current = 0
  /\ \E i \in 1..Len(circuitElements) :
       HandedToSolver(i) /\ circuitElements[i].current # 0

\* C9: after the call has returned, the two end vertices of every closed
\* conductor that is not in a loop with a voltage source have equal voltage.
C9_OpenBranchEndsEqual ==
  pc = "returned" =>
    \A i \in 1..Len(circuitElements) :
      (IsClosedConductor(circuitElements[i]) /\ ~isInLoopWithVoltageSource(i)) =>
        vertexVoltage[circuitElements[i].startVertex]
          = vertexVoltage[circuitElements[i].endVertex]

\* the state a capacitor or an inductor carries from one call to the next
Carried(e) == <<e.mnaVoltageDrop, e.mnaCurrent>>

IsDynamic(e) == e.type \in {"Capacitor", "Inductor"}

\* the adapters of the dynamic elements start every solve of the call from
\* the state their elements carried into the call
SolvesStartFromCarried ==
  pc \in {"solve", "correct", "resolve"} =>
    /\ capacitorAdapters' = capacitorAdapters
    /\ inductorAdapters' = inductorAdapters
    /\ \A adapters \in {capacitorAdapters, inductorAdapters} :
         \A k \in 1..Len(adapters) :
           <<adapters[k].mnaVoltageDrop, adapters[k].mnaCurrent>>
             = Carried(circuitElements[adapters[k].element])

\* the step that applies the solution writes the carried state of element i
\* from the result of the last solve
WrittenFromLastSolve(i) ==
  LET circuitResult == results[Len(results)]
      e == circuitElements[i]
  IN  /\ i \in DOMAIN circuitResult.current
      /\ circuitElements'[i].mnaCurrent = clampMagnitude(circuitResult.current[i])
      /\ circuitElements'[i].mnaVoltageDrop =
           clampMagnitude(circuitResult.nodeVoltage[e.endVertex]
                            - circuitResult.nodeVoltage[e.startVertex])

C30_ResistorAdapterValuesNonZero ==
  \A k \in 1..Len(resistorAdapters) : resistorAdapters[k].value # 0

\* the second solve is about to run with a wire whose model resistance is 0,
\* handed over as MINIMUM_RESISTANCE, and a light bulb with a new estimate
C30_Witness ==
  /\ pc = "resolve"
  /\ \E k, l \in 1..Len(resistorAdapters) :
       /\ circuitElements[resistorAdapters[k].element].type = "Wire"
       /\ circuitElements[resistorAdapters[k].element].resistance = 0
       /\ resistorAdapters[k].value = MINIMUM_RESISTANCE
       /\ circuitElements[resistorAdapters[l].element].type = "LightBulb"
       /\ resistorAdapters[l].value > 10

(***************************************************************************)
(* LTAStateSet                                                             *)
(***************************************************************************)

\* longest sequence of sub-steps an LTAStateSet is constructed with
MaxSubsteps == 2

\* the circuit element the readouts are asked for
MNAElements == { [id |-> 1, nodeId0 |-> 0, nodeId1 |-> 1] }

\* the core model (a capacitor or inductor) the readouts are asked for
CoreModels == { [id |-> 2, node0 |-> 1, node1 |-> 0] }

\* the solutions a sub-step's state may hold: a current for the element and
\* for the core model, and a voltage for each of the nodes 0 and 1
LTASolutions ==
  { [current |-> c, voltage |-> Tuple([n \in 1..2 |-> IF n = 1 THEN 0 ELSE v])] :
      c \in [{1, 2} -> {-1, 2}], v \in {0, 3} }

\* the durations of the sub-steps
LTADurations == { MIN_DT, 3 * MIN_DT }

\* type Element = { dt: number; state: LTAState }
SubSteps == { [dt |-> d, state |-> [ltaSolution |-> sol]] : d \in LTADurations, sol \in LTASolutions }

\* the sequences of sub-steps an LTAStateSet is constructed with
ResultSets == UNION { [1..n -> SubSteps] : n \in 1..MaxSubsteps }

\* ltaSolution.getCurrent( element )
getCurrent(ltaSolution, e) == ltaSolution.current[e.id]

\* ltaSolution.getCurrentForCompanion( coreModel )
getCurrentForCompanion(ltaSolution, coreModel) == ltaSolution.current[coreModel.id]

\* ltaSolution.getVoltage( nodeId0, nodeId1 ); node n is held at position n + 1
getVoltage(ltaSolution, n0, n1) == ltaSolution.voltage[n1 + 1] - ltaSolution.voltage[n0 + 1]

AccumulateUnweighted(sums, current, d) == <<sums[1] + current, sums[2] + d>>

\* weightedSum += current * stateObject.dt; totalTime += stateObject.dt
Accumulate(sums, current, d) == <<sums[1] + current * d, sums[2] + d>>

\* this.resultSet.forEach of getTimeAverageCurrent, from sub-step i on;
\* sums is <<weightedSum, totalTime>>
RECURSIVE AverageLoop(_, _, _, _)
AverageLoop(rs, e, i, sums) ==
  IF i > Len(rs)
    THEN sums
    ELSE AverageLoop(rs, e, i + 1,
                     Accumulate(sums, getCurrent(rs[i].state.ltaSolution, e), rs[i].dt))

\* LTAStateSet.getTimeAverageCurrent: weightedSum / totalTime
LTAStateSet_getTimeAverageCurrent(rs, e) ==
  LET sums == AverageLoop(rs, e, 1, <<0, 0>>)
  IN  Rat(sums[1], sums[2])

\* this.resultSet.forEach of getTimeAverageCurrentForCoreModel
RECURSIVE AverageLoopForCoreModel(_, _, _, _)
AverageLoopForCoreModel(rs, coreModel, i, sums) ==
  IF i > Len(rs)
    THEN sums
    ELSE AverageLoopForCoreModel(rs, coreModel, i + 1,
           Accumulate(sums, getCurrentForCompanion(rs[i].state.ltaSolution, coreModel), rs[i].dt))

\* LTAStateSet.getTimeAverageCurrentForCoreModel
getTimeAverageCurrentForCoreModel(rs, coreModel) ==
  LET sums == AverageLoopForCoreModel(rs, coreModel, 1, <<0, 0>>)
  IN  Rat(sums[1], sums[2])

getFirstState(rs) == rs[1].state

\* return _.last( this.resultSet ).state
getFinalState(rs) == rs[Len(rs)].state

\* LTAStateSet.getInstantaneousCurrent
LTAStateSet_getInstantaneousCurrent(rs, e) ==
  FromInt(getCurrent(getFinalState(rs).ltaSolution, e))

\* LTAStateSet.getInstantaneousVoltage
getInstantaneousVoltage(rs, e) ==
  FromInt(getVoltage(getFinalState(rs).ltaSolution, e.nodeId0, e.nodeId1))

\* LTAStateSet.getInstantaneousVoltageForCoreModel
getInstantaneousVoltageForCoreModel(rs, coreModel) ==
  FromInt(getVoltage(getFinalState(rs).ltaSolution, coreModel.node0, coreModel.node1))

\* LTAStateSet.getInstantaneousCurrentForCoreModel
getInstantaneousCurrentForCoreModel(rs, coreModel) ==
  FromInt(getCurrentForCompanion(getFinalState(rs).ltaSolution, coreModel))

\* the positions of the result aggregator: constructed, or the name of the
\* method that returned last
LTAPositions ==
  { "lta", "getTimeAverageCurrent", "getTimeAverageCurrentForCoreModel",
    "getInstantaneousCurrent", "getInstantaneousVoltage",
    "getInstantaneousVoltageForCoreModel", "getInstantaneousCurrentForCoreModel" }

\* new LTAStateSet( resultSet )
InitLTA ==
  /\ pc = "lta"
  /\ resultSet \in ResultSets
  /\ queried = << >>
  /\ number = << >>
  /\ IdleTS
  /\ IdleMNA
  /\ IdleAdapter
  /\ IdleCircuit
  /\ IdleModel

GetTimeAverageCurrent ==
  /\ pc \in LTAPositions
  /\ \E e \in MNAElements :
       /\ queried' = e
       /\ number' = LTAStateSet_getTimeAverageCurrent(resultSet, e)
  /\ pc' = "getTimeAverageCurrent"
  /\ UNCHANGED resultSet
  /\ UNCHANGED notLTA

GetTimeAverageCurrentForCoreModel ==
  /\ pc \in LTAPositions
  /\ \E coreModel \in CoreModels :
       /\ queried' = coreModel
       /\ number' = getTimeAverageCurrentForCoreModel(resultSet, coreModel)
  /\ pc' = "getTimeAverageCurrentForCoreModel"
  /\ UNCHANGED resultSet
  /\ UNCHANGED notLTA

GetInstantaneousCurrent ==
  /\ pc \in LTAPositions
  /\ \E e \in MNAElements :
       /\ queried' = e
       /\ number' = LTAStateSet_getInstantaneousCurrent(resultSet, e)
  /\ pc' = "getInstantaneousCurrent"
  /\ UNCHANGED resultSet
  /\ UNCHANGED notLTA

GetInstantaneousVoltage ==
  /\ pc \in LTAPositions
  /\ \E e \in MNAElements :
       /\ queried' = e
       /\ number' = getInstantaneousVoltage(resultSet, e)
  /\ pc' = "getInstantaneousVoltage"
  /\ UNCHANGED resultSet
  /\ UNCHANGED notLTA

GetInstantaneousVoltageForCoreModel ==
  /\ pc \in LTAPositions
  /\ \E coreModel \in CoreModels :
       /\ queried' = coreModel
       /\ number' = getInstantaneousVoltageForCoreModel(resultSet, coreModel)
  /\ pc' = "getInstantaneousVoltageForCoreModel"
  /\ UNCHANGED resultSet
  /\ UNCHANGED notLTA

GetInstantaneousCurrentForCoreModel ==
  /\ pc \in LTAPositions
  /\ \E coreModel \in CoreModels :
       /\ queried' = coreModel
       /\ number' = getInstantaneousCurrentForCoreModel(resultSet, coreModel)
  /\ pc' = "getInstantaneousCurrentForCoreModel"
  /\ UNCHANGED resultSet
  /\ UNCHANGED notLTA

NextLTA ==
  \/ GetTimeAverageCurrent
  \/ GetTimeAverageCurrentForCoreModel
  \/ GetInstantaneousCurrent
  \/ GetInstantaneousVoltage
  \/ GetInstantaneousVoltageForCoreModel
  \/ GetInstantaneousCurrentForCoreModel

SpecLTA == InitLTA /\ [][NextLTA]_vars

(***************************************************************************)
(* Properties of LTAStateSet                                               *)
(***************************************************************************)

\* the current the solution of sub-step i holds for the queried element
CurrentAt(i) == resultSet[i].state.ltaSolution.current[queried.id]

\* sum of current_i * dt_i over the sequence, divided by the sum of dt_i
WeightedMean ==
  Rat(SeqSum([i \in 1..Len(resultSet) |-> CurrentAt(i) * resultSet[i].dt]),
      SeqSum([i \in 1..Len(resultSet) |-> resultSet[i].dt]))

\* C14: for every non-empty sequence of sub-steps, getTimeAverageCurrent
\* (and its core-model twin) returns the duration-weighted mean
\* (sum of current_i * dt_i) / (sum of dt_i) of the element's current; for a
\* sequence of one sub-step that is the sub-step's current.
C14_TimeAverageIsWeightedMean ==
  pc \in {"getTimeAverageCurrent", "getTimeAverageCurrentForCoreModel"} =>
    /\ number = WeightedMean
    /\ Len(resultSet) = 1 => number = FromInt(CurrentAt(1))

\* the average of two sub-steps of different durations and different
\* currents has been returned: -1 for MIN_DT and 2 for 3 * MIN_DT give 5/4
C14_Witness ==
  /\ pc = "getTimeAverageCurrent"
  /\ Len(resultSet) = 2
  /\ CurrentAt(1) = -1 /\ resultSet[1].dt = MIN_DT
  /\ CurrentAt(2) = 2 /\ resultSet[2].dt = 3 * MIN_DT
  /\ number = <<5, 4>>

\* the result sets that differ from this one in one sub-step before the last
EarlierChanged ==
  { [resultSet EXCEPT ![i] = s] : i \in 1..(Len(resultSet) - 1), s \in SubSteps }

\* C15: getInstantaneousCurrent and getInstantaneousVoltage return the value
\* held by the final recorded state, and return the same for every result
\* set that differs in the duration or the state of an earlier sub-step.
C15_InstantaneousReadsLastOnly ==
  LET last == resultSet[Len(resultSet)].state.ltaSolution
  IN  /\ pc = "getInstantaneousCurrent" =>
           /\ number = FromInt(last.current[queried.id])
           /\ \A rs \in EarlierChanged :
                LTAStateSet_getInstantaneousCurrent(rs, queried) = number
      /\ pc = "getInstantaneousVoltage" =>
           /\ number = FromInt(last.voltage[queried.nodeId1 + 1] - last.voltage[queried.nodeId0 + 1])
           /\ \A rs \in EarlierChanged :
                getInstantaneousVoltage(rs, queried) = number

\* the instantaneous current has been read from a result set whose first
\* sub-step holds another current and another voltage than its last
C15_Witness ==
  /\ pc = "getInstantaneousCurrent"
  /\ Len(resultSet) = 2
  /\ CurrentAt(1) # CurrentAt(2)
  /\ resultSet[1].state.ltaSolution.voltage # resultSet[2].state.ltaSolution.voltage
  /\ number = FromInt(CurrentAt(2))

(***************************************************************************)
(* Circuit and CircuitLayerNode                                            *)
(***************************************************************************)

\* the largest number of circuit elements that are added to the circuit
MaxCircuitSize == 1

\* the number of Vertex objects that exist at a time: two interface
\* vertices, two vertices for each circuit element and as many new ones as a
\* cut makes before it deletes the vertex
MaxVertexId == 3 * MaxCircuitSize + 2

VertexIds == 1..MaxVertexId

\* new Vertex( ... ): a vertex that is none of the vertices in use
NewVertex(used) ==
  CHOOSE v \in VertexIds \ used : \A w \in VertexIds \ used : v <= w

\* a circuit element of the circuit graph
GraphElement(startVertex, endVertex, fixedLength, interactive) ==
  [startVertex |-> startVertex, endVertex |-> endVertex,
   fixedLength |-> fixedLength, interactive |-> interactive]

\* the vertices of a loaded black box are not draggable, the attachable ones
\* are its interface; every other vertex is created draggable
isDraggable(vertex) == vertex \notin blackBoxInterface

\* circuitElement.containsVertex( vertex )
containsVertex(circuitElement, vertex) ==
  circuitElement.startVertex = vertex \/ circuitElement.endVertex = vertex

\* circuitElement.containsBothVertices( vertex1, vertex2 )
containsBothVertices(circuitElement, vertex1, vertex2) ==
  containsVertex(circuitElement, vertex1) /\ containsVertex(circuitElement, vertex2)

\* circuitElement.getOppositeVertex( vertex )
getOppositeVertex(circuitElement, vertex) ==
  IF circuitElement.startVertex = vertex
    THEN circuitElement.endVertex
    ELSE circuitElement.startVertex

\* circuitElement.replaceVertex( oldVertex, newVertex )
replaceVertex(circuitElement, oldVertex, newVertex) ==
  IF oldVertex = circuitElement.startVertex
    THEN [circuitElement EXCEPT !.startVertex = newVertex]
    ELSE [circuitElement EXCEPT !.endVertex = newVertex]

\* the indices of getNeighborCircuitElements( vertex )
getNeighborCircuitElements(array, vertex) ==
  { i \in 1..Len(array) : containsVertex(array[i], vertex) }

\* getNeighborVertices( vertex )
getNeighborVertices(array, vertex) ==
  { getOppositeVertex(array[i], vertex) : i \in getNeighborCircuitElements(array, vertex) }

\* isVertexAdjacent( a, b )
isVertexAdjacent(array, v1, v2) ==
  /\ v1 # v2
  /\ \E i \in 1..Len(array) : containsBothVertices(array[i], v1, v2)

\* the while loop of searchVertices with okToVisit always true: the vertices
\* found so far and the neighbors of each of them
RECURSIVE Visit(_, _)
Visit(found, array) ==
  LET neighbors == UNION { getNeighborVertices(array, v) : v \in found }
  IN  IF neighbors \subseteq found
        THEN found
        ELSE Visit(found \cup neighbors, array)

\* searchVertices( vertex, circuitElements, okToVisit ), as a set
searchVertices(vertex, array) == Visit({vertex}, array)

IsFixedLength(circuitElement) == circuitElement.fixedLength

\* getFixedLengthCircuitElements()
getFixedLengthCircuitElements(array) == SelectSeq(array, IsFixedLength)

findAllConnectedVertices(array, vertex) == searchVertices(vertex, array)

\* findAllFixedVertices( vertex )
findAllFixedVertices(array, vertex) ==
  searchVertices(vertex, getFixedLengthCircuitElements(array))

canDragVertexItself(vertex) == vertex \notin isDragged

\* CircuitLayerNode.canDragVertex( vertex )
canDragVertex(vertex) ==
  \A x \in findAllFixedVertices(circuitElementArray, vertex) : x \notin isDragged

\* CircuitLayerNode.setVerticesDragging( vertex ): the vertices whose isDragged is true afterwards
setVerticesDragging(vertex) ==
  isDragged \cup findAllFixedVertices(circuitElementArray, vertex)

\* the candidates of getDropTarget( vertex ) that pass the rules (1), (2),
\* (4), (6) and (8); the rules (3), (5), (7) and (9) depend on the positions
\* of the vertices and may reject any of them
getDropTarget(array, verts, vertex) ==
  { candidateVertex \in verts :
      /\ ~isVertexAdjacent(array, vertex, candidateVertex)
      /\ candidateVertex # vertex
      /\ candidateVertex \notin findAllFixedVertices(array, vertex)
      /\ getNeighborVertices(array, candidateVertex)
           \cap getNeighborVertices(array, vertex) = {} }

\* the circuit as an operation leaves it
Graph(array, verts) == [array |-> array, vertices |-> verts]

connectAndDeleteOld(array, verts, targetVertex, oldVertex) ==
  Graph(Tuple([i \in 1..Len(array) |->
                 IF containsVertex(array[i], oldVertex)
                   THEN replaceVertex(array[i], oldVertex, targetVertex)
                   ELSE array[i]]),
        verts \ {oldVertex})

\* connect( targetVertex, oldVertex ): a black box interface vertex is kept
connect(array, verts, targetVertex, oldVertex) ==
  LET kept == IF oldVertex \in blackBoxInterface THEN oldVertex ELSE targetVertex
      deleted == IF oldVertex \in blackBoxInterface THEN targetVertex ELSE oldVertex
  IN  Graph(Tuple([i \in 1..Len(array) |->
                     IF containsVertex(array[i], deleted)
                       THEN replaceVertex(array[i], deleted, kept)
                       ELSE array[i]]),
            verts \ {deleted})

removeWithItsVertices(array, verts, i) ==
  Graph(RemoveAt(array, i),
        (verts \ {array[i].startVertex}) \ {array[i].endVertex})

\* remove( circuitElement ), circuitElement being the i-th
remove(array, verts, i) ==
  LET rest == RemoveAt(array, i)
      startVertex == array[i].startVertex
      endVertex == array[i].endVertex
      afterStart ==
        IF getNeighborCircuitElements(rest, startVertex) = {}
             /\ startVertex \notin blackBoxInterface
          THEN verts \ {startVertex}
          ELSE verts
  IN  Graph(rest,
            IF getNeighborCircuitElements(rest, endVertex) = {}
                 /\ endVertex \notin blackBoxInterface
              THEN afterStart \ {endVertex}
              ELSE afterStart)

\* the while loop of clear()
RECURSIVE ClearLoop(_, _)
ClearLoop(array, verts) ==
  IF Len(array) = 0
    THEN Graph(array, verts)
    ELSE LET removed == remove(array, verts, 1)
         IN  ClearLoop(removed.array, removed.vertices)

\* clear()
clear(array, verts) ==
  IF phetBlackBoxStudy
    THEN Graph(<< >>, {})
    ELSE ClearLoop(array, verts)

\* the for loop of cutVertex( vertex ), from the i-th circuit element on
RECURSIVE CutLoop(_, _, _, _)
CutLoop(array, verts, vertex, i) ==
  IF i > Len(array)
    THEN Graph(array, verts)
  ELSE IF containsVertex(array[i], vertex) /\ array[i].interactive
    THEN LET newVertex == NewVertex(verts \cup blackBoxInterface)
         IN  CutLoop([array EXCEPT ![i] = replaceVertex(@, vertex, newVertex)],
                     verts \cup {newVertex}, vertex, i + 1)
  ELSE CutLoop(array, verts, vertex, i + 1)

\* cutVertex( vertex )
cutVertex(array, verts, vertex) ==
  IF getNeighborCircuitElements(array, vertex) = {}
    THEN Graph(array, verts)
    ELSE LET cut == CutLoop(array, verts, vertex, 1)
         IN  Graph(cut.array,
                   IF vertex \notin blackBoxInterface
                     THEN cut.vertices \ {vertex}
                     ELSE cut.vertices)

\* the positions between the operations on the circuit
CircuitPositions == { "circuit", "remove", "cutVertex", "connect", "endDrag" }

\* the black box that is loaded, if any: its two interface vertices, with or
\* without an element inside the box that the user cannot touch
BlackBoxes ==
  { Graph(<< >>, {}),
    Graph(<< >>, {1, 2}),
    Graph(<<GraphElement(1, 2, TRUE, FALSE)>>, {1, 2}) }

InitCircuit ==
  /\ pc = "circuit"
  /\ \E blackBox \in BlackBoxes :
       /\ circuitElementArray = blackBox.array
       /\ vertices = blackBox.vertices
       /\ blackBoxInterface = blackBox.vertices
       /\ phetBlackBoxStudy = (blackBox.vertices # {})
  /\ isDragged = {}
  /\ dragging = {}
  /\ marked = {}
  /\ IdleTS
  /\ IdleMNA
  /\ IdleAdapter
  /\ IdleLTA
  /\ IdleModel

\* the start and end vertices of the circuit elements from the i-th on
RECURSIVE Named(_, _)
Named(array, i) ==
  IF i > Len(array)
    THEN << >>
    ELSE <<array[i].startVertex, array[i].endVertex>> \o Named(array, i + 1)

\* the entries of seq that are not in found, each once, in their order, after found
RECURSIVE FirstOccurrences(_, _)
FirstOccurrences(seq, found) ==
  IF seq = << >> THEN found
  ELSE IF \E k \in 1..Len(found) : found[k] = Head(seq)
    THEN FirstOccurrences(Tail(seq), found)
  ELSE FirstOccurrences(Tail(seq), Append(found, Head(seq)))

\* Vertex objects are told apart by identity only: the interface vertices
\* keep their numbers and the other vertices are numbered in the order in
\* which the circuit elements name them
Numbering(graph) ==
  LET interface == Ascending(blackBoxInterface)
      named == FirstOccurrences(Named(graph.array, 1), interface)
      order == FirstOccurrences(Ascending(graph.vertices), named)
  IN  [v \in { order[k] : k \in 1..Len(order) } |->
         IF v \in blackBoxInterface
           THEN v
           ELSE CHOOSE k \in 1..Len(order) : order[k] = v]

\* the circuit after an operation: the view of a vertex that left the
\* circuit is disposed with its drag listener, and nothing refers to the
\* vertex any more
Becomes(graph, flags, drags, marks, position) ==
  \E n \in { Numbering(graph) } :
    /\ circuitElementArray' =
         Tuple([i \in 1..Len(graph.array) |->
                  [graph.array[i] EXCEPT !.startVertex = n[@], !.endVertex = n[@]]])
    /\ vertices' = { n[v] : v \in graph.vertices }
    /\ isDragged' = { n[v] : v \in flags \cap graph.vertices }
    /\ dragging' = { n[v] : v \in drags \cap graph.vertices }
    /\ marked' = { <<n[p[1]], n[p[2]]>> :
                     p \in { q \in marks : q[1] \in drags \cap graph.vertices
                                              /\ q[2] \in graph.vertices } }
    /\ pc' = position
    /\ UNCHANGED <<blackBoxInterface, phetBlackBoxStudy>>
    /\ UNCHANGED notCircuit

\* circuitElements.add( circuitElement ) with a new circuit element between
\* two new vertices, and the listener addVertices
AddElement ==
  /\ pc \in CircuitPositions
  /\ Cardinality({ i \in 1..Len(circuitElementArray) : circuitElementArray[i].interactive })
       < MaxCircuitSize
  /\ \E fixedLength \in BOOLEAN :
       LET startVertex == NewVertex(vertices \cup blackBoxInterface)
           endVertex == NewVertex(vertices \cup blackBoxInterface \cup {startVertex})
       IN  Becomes(Graph(Append(circuitElementArray,
                                GraphElement(startVertex, endVertex, fixedLength, TRUE)),
                         vertices \cup {startVertex, endVertex}),
                   isDragged, dragging, marked, "circuit")

\* remove( circuitElement ) of a circuit element the user can select
Remove ==
  /\ pc \in CircuitPositions
  /\ \E i \in 1..Len(circuitElementArray) :
       /\ circuitElementArray[i].interactive
       /\ Becomes(remove(circuitElementArray, vertices, i),
                  isDragged, dragging, marked, "remove")

\* the cut button: cutVertex( selectedVertex )
CutVertex ==
  /\ pc \in CircuitPositions
  /\ \E vertex \in vertices :
       Becomes(cutVertex(circuitElementArray, vertices, vertex),
               isDragged, dragging, marked, "cutVertex")

\* clear()
Clear ==
  /\ pc \in CircuitPositions
  /\ Becomes(clear(circuitElementArray, vertices), isDragged, dragging, marked, "circuit")

\* a pointer is pressed on a vertex that can be dragged: setVerticesDragging( vertex )
SetVerticesDragging ==
  /\ pc \in CircuitPositions
  /\ \E vertex \in vertices :
       /\ canDragVertex(vertex)
       /\ Becomes(Graph(circuitElementArray, vertices),
                  setVerticesDragging(vertex),
                  dragging \cup {vertex},
                  marked \cup { <<vertex, x>> : x \in findAllFixedVertices(circuitElementArray, vertex) },
                  "circuit")

\* the pointer is released: endDrag( vertex, dragged ); there is no connect
\* when the vertex was not dragged or no drop target is in reach
EndDrag ==
  /\ pc \in CircuitPositions
  /\ \E vertex \in dragging :
       \E group \in { findAllFixedVertices(circuitElementArray, vertex) } :
         LET flags == isDragged \ group
             drags == dragging \ {vertex}
             marks == { p \in marked : p[1] # vertex }
         IN  IF \E x \in group : ~isDraggable(x)
               THEN Becomes(Graph(circuitElementArray, vertices),
                            flags, drags, marks, "endDrag")
               ELSE \/ Becomes(Graph(circuitElementArray, vertices),
                               flags, drags, marks, "endDrag")
                    \/ \E src \in group :
                         \E dst \in getDropTarget(circuitElementArray, vertices, src) :
                           Becomes(connect(circuitElementArray, vertices, src, dst),
                                   flags, drags, marks, "connect")

NextCircuit ==
  \/ AddElement
  \/ Remove
  \/ CutVertex
  \/ Clear
  \/ SetVerticesDragging
  \/ EndDrag

SpecCircuit == InitCircuit /\ [][NextCircuit]_vars

(***************************************************************************)
(* Properties of Circuit and CircuitLayerNode                              *)
(***************************************************************************)

\* C25: once endDrag(v) has run, no vertex of the circuit that the matching
\* setVerticesDragging(v) marked has isDragged set any more, whatever
\* happened to the circuit between the two calls.
C25_DragMarksCleared ==
  [][pc' = "endDrag" =>
       \A v \in dragging \ dragging' :
         \A x \in vertices : <<v, x>> \in marked => x \notin isDragged']_vars

\* C26: while a vertex is being dragged, canDragVertex is false for it and
\* for every vertex that fixed length elements connect to it.
C26_DraggedGroupCannotBeDragged ==
  \A vertex \in dragging :
    \A x \in findAllFixedVertices(circuitElementArray, vertex) : ~canDragVertex(x)

\* a vertex is being dragged and a cut has put a new vertex, which was never
\* marked, into its fixed group
C26_Witness ==
  /\ pc = "cutVertex"
  /\ \E vertex \in dragging :
       \E x \in findAllFixedVertices(circuitElementArray, vertex) :
         /\ x # vertex
         /\ x \notin isDragged

C28_InterfaceVerticesStay ==
  [][pc' \in {"connect", "cutVertex", "remove"} =>
       \A v \in vertices : v \in blackBoxInterface => v \in vertices']_vars

\* a cut or a remove has left an interface vertex in the circuit with no
\* circuit element attached to it
C28_Witness ==
  /\ pc \in {"cutVertex", "remove"}
  /\ \E v \in vertices \cap blackBoxInterface :
       getNeighborCircuitElements(circuitElementArray, v) = {}
  /\ Len(circuitElementArray) >= 1

(***************************************************************************)
(* CircuitConstructionKitModel.step and CCKCScreenView.stepOnce            *)
(***************************************************************************)

\* the largest number of calls of step( dt )
MaxModelSteps == 3

\* CCKCConstants.PAUSED_DT and CCKCConstants.MAX_DT, in units of time in
\* which PAUSED_DT is 1: the time delta of a paused model is shorter than
\* every time delta of the clock
PAUSED_DT == 1

MAX_DT == 4

\* the time a zoom animation takes
ZOOM_DURATION == 4

\* the time deltas of the simulation clock: short ones, MAX_DT and a
\* longer one
StepDts == 2..(MAX_DT + 1)

isLargeStepStrictly(d) == d > MAX_DT

\* dt >= CCKCConstants.MAX_DT: the screen was hidden for a while
isLargeStep(d) == d >= MAX_DT

\* zoomAnimation.step( dt ) and the test of its ratio: the animation after
\* the step, none when the animation is over
zoomAnimationStep(animation, d) ==
  IF animation = << >> THEN << >>
  ELSE IF animation[1] + d >= ZOOM_DURATION THEN << >>
  ELSE <<animation[1] + d>>

\* CCKCScreenView.stepOnce( dt ), the listener of stepEmitter
viewStepOnce(steps, d) == IF d >= MAX_DT THEN steps ELSE Append(steps, d)

\* CircuitConstructionKitModel.stepOnce( dt )
stepOnce(d) ==
  /\ IF isValueDepictionEnabled
       THEN circuitSteps' = Append(circuitSteps, d) /\ dirty' = FALSE
       ELSE UNCHANGED <<circuitSteps, dirty>>
  /\ stopwatchTime' = stopwatchTime + d
  /\ emitted' = Append(emitted, d)
  /\ charted' = viewStepOnce(charted, d)

InitModel ==
  /\ pc = "model"
  /\ zoomAnimation = << >>
  /\ isPlaying = TRUE
  /\ isValueDepictionEnabled = TRUE
  /\ dirty = FALSE
  /\ circuitSteps = << >>
  /\ stopwatchTime = 0
  /\ emitted = << >>
  /\ stepDt = 0
  /\ charted = << >>
  /\ IdleTS
  /\ IdleMNA
  /\ IdleAdapter
  /\ IdleLTA
  /\ IdleCircuit

\* step( dt ) of the model, called by the simulation clock
Step ==
  /\ pc \in {"model", "step"}
  /\ Len(emitted) < MaxModelSteps
  /\ \E d \in StepDts :
       /\ stepDt' = d
       /\ pc' = "step"
       /\ IF isLargeStep(d)
            THEN UNCHANGED <<zoomAnimation, circuitSteps, dirty, stopwatchTime,
                             emitted, charted>>
            ELSE /\ zoomAnimation' = zoomAnimationStep(zoomAnimation, d)
                 /\ IF isPlaying \/ dirty
                      THEN stepOnce(IF isPlaying THEN d ELSE PAUSED_DT)
                      ELSE UNCHANGED <<circuitSteps, dirty, stopwatchTime,
                                       emitted, charted>>
  /\ UNCHANGED <<isPlaying, isValueDepictionEnabled>>
  /\ UNCHANGED notModel

\* selectedZoomProperty changes: a new zoom animation
SelectZoom ==
  /\ pc \in {"model", "step"}
  /\ zoomAnimation' = <<0>>
  /\ pc' = "model"
  /\ UNCHANGED <<isPlaying, isValueDepictionEnabled, dirty, circuitSteps,
                 stopwatchTime, emitted, stepDt, charted>>
  /\ UNCHANGED notModel

\* the play/pause button: isPlayingProperty
SetPlaying ==
  /\ pc \in {"model", "step"}
  /\ isPlaying' = ~isPlaying
  /\ pc' = "model"
  /\ UNCHANGED <<zoomAnimation, isValueDepictionEnabled, dirty, circuitSteps,
                 stopwatchTime, emitted, stepDt, charted>>
  /\ UNCHANGED notModel

\* isValueDepictionEnabledProperty changes
SetValueDepictionEnabled ==
  /\ pc \in {"model", "step"}
  /\ isValueDepictionEnabled' = ~isValueDepictionEnabled
  /\ pc' = "model"
  /\ UNCHANGED <<zoomAnimation, isPlaying, dirty, circuitSteps,
                 stopwatchTime, emitted, stepDt, charted>>
  /\ UNCHANGED notModel

\* the circuit changes: circuit.dirty
MarkDirty ==
  /\ pc \in {"model", "step"}
  /\ ~dirty
  /\ dirty' = TRUE
  /\ pc' = "model"
  /\ UNCHANGED <<zoomAnimation, isPlaying, isValueDepictionEnabled, circuitSteps,
                 stopwatchTime, emitted, stepDt, charted>>
  /\ UNCHANGED notModel

NextModel ==
  \/ Step
  \/ SelectZoom
  \/ SetPlaying
  \/ SetValueDepictionEnabled
  \/ MarkDirty

SpecModel == InitModel /\ [][NextModel]_vars

(***************************************************************************)
(* Properties of CircuitConstructionKitModel.step                          *)
(***************************************************************************)

\* C29: a call of step(dt) with dt >= MAX_DT does not step the circuit, does
\* not advance the stopwatch, does not advance a running zoom animation and
\* does not fire stepEmitter, and every time delta that circuit.step gets is
\* below MAX_DT.
C29_LargeStepIgnored ==
  [][/\ (pc' = "step" /\ stepDt' >= MAX_DT) =>
          UNCHANGED <<circuitSteps, stopwatchTime, zoomAnimation, emitted>>
     /\ \A k \in 1..Len(circuitSteps') : circuitSteps'[k] < MAX_DT]_vars

\* a step of MAX_DT or more was ignored while the model was playing, a zoom
\* animation was running and earlier steps had stepped the circuit
C29_Witness ==
  /\ pc = "step"
  /\ stepDt >= MAX_DT
  /\ isPlaying
  /\ isValueDepictionEnabled
  /\ zoomAnimation # << >>
  /\ circuitSteps # << >>
  /\ stopwatchTime > 0

====
